---- MODULE Spec2Model ----
(***************************************************************************)
(* Model of the SJTU-Chatbot MCP server (mcp_server/server.py) and of the  *)
(* jAccount session manager (mcp_server/jaccount_login.py).                *)
(*                                                                         *)
(* One POST /mcp exchange, one direct call of a registered tool and one    *)
(* call of a session-manager method are each one atomic action.  The last  *)
(* operation and what it returned is kept in `last`, tagged by `op`.       *)
(***************************************************************************)
EXTENDS Integers, Sequences, FiniteSets, TLC

VARIABLES
    tools,      \* MCPStreamableHTTPServer.tools : name -> _tool_info
    sessions,   \* MCPStreamableHTTPServer.sessions : session id -> record
    issued,     \* the identifiers sent so far in an Mcp-Session-Id header
    cookies,    \* JAccountLogin.cookies (None or a name -> value dict)
    jar,        \* JAccountLogin.session.cookies, the HTTP client's jar
    file,       \* the file at JAccountLogin.config_path
    remote,     \* how the account endpoint answers the next liveness GET
    monitor,    \* JAccountLogin._session_monitor_thread, _session_monitor_stop,
                \* _login_callback and the age of _last_check_time
    threads,    \* the threading.Thread objects made by start_session_monitor
    pc,         \* where each thread that calls into the manager stands
    watch,      \* the time since a monitor thread last ran its liveness
                \* check, and what that check ended with
    conns,      \* the GET /mcp connections and their keep-alive streams
    instance,   \* JAccountLoginManager._instance and the JAccountLogin
                \* objects made so far
    harness,    \* where main() of test.py stands and what it has called
    last        \* the last operation, its input and its outcome

vars == <<tools, sessions, issued, cookies, jar, file, remote, monitor,
          threads, pc, watch, conns, instance, harness, last>>

\* the server's fields, the session manager's cookie state, and the
\* session manager's monitor state with the threads around it
srvVars == <<tools, sessions, issued>>
mgrVars == <<cookies, jar, file, remote>>
monVars == <<monitor, threads, pc, watch>>

\* the process around the server and the manager: the open GET streams,
\* the singleton holder, the harness
procVars == <<conns, instance, harness>>

----------------------------------------------------------------------------
(* Bounds *)

\* uuid4 identifiers the model can hand out
MaxSessions == 2

\* threading.Thread objects start_session_monitor can make
MaxThreads == 2

\* Python's None, and a JSON member that is not there
None == "None"
Absent == "absent"

----------------------------------------------------------------------------
(* Tool registry: register_tool and _scan_and_register_tools *)

\* the tool modules under sjtu_chatbot/tools that the model scans
ToolModules == {"account_info", "sjtu_jwc"}

\* register_tool: the _tool_info attached to the wrapper a module defines
register_tool(module) ==
    IF module = "account_info"
    THEN [name |-> "account_info", require_login |-> TRUE]
    ELSE [name |-> "jwc_news", require_login |-> FALSE]

\* every name some module registers
ToolNames == {register_tool(m).name : m \in ToolModules}

\* _scan_and_register_tools: self.tools[tool_info['name']] = attr for every
\* attribute with _tool_info of every module whose import did not raise
_scan_and_register_tools(loaded) ==
    [n \in {register_tool(m).name : m \in loaded} |->
        register_tool(CHOOSE m \in loaded : register_tool(m).name = n)]

----------------------------------------------------------------------------
(* Session manager state *)

CookieNames == {"JSESSIONID", "JAAuthCookie"}
CookieValues == {"v1", "v2"}

\* cookie.value: a string, or None for a cookie the remote side set with a
\* bare name ("Set-Cookie: flag; Path=/")
JarValues == CookieValues \cup {None}

\* a dict of cookie name -> value
CookieMaps == UNION {[D -> JarValues] : D \in SUBSET CookieNames}
EmptyMap == [n \in {} |-> "v1"]

\* self.cookies: None, or a dict
NoCookies == [isNone |-> TRUE, map |-> EmptyMap]
CookieDict(m) == [isNone |-> FALSE, map |-> m]

\* Python truthiness of self.cookies: None and {} are falsy
Truthy(c) == ~c.isNone /\ DOMAIN c.map # {}

\* answers of GET LOGIN_CHECK_URL
RemoteAnswers ==
    {"200_success", "200_other_json", "200_json_not_object", "200_not_json",
     "302_login", "other_status", "network_error"}

\* the block under `if response.status_code == 200` of is_logged_in:
\* response.json() raises ValueError for a body that is not JSON, which is
\* passed over; data.get raises AttributeError for JSON that is not an
\* object, which leaves the block
json_success_check(answer) ==
    IF answer = "200_success" THEN "return_true"
    ELSE IF answer = "200_json_not_object" THEN "raises"
    ELSE "falls_through"

\* is_logged_in that sends the GET whatever self.cookies holds
is_logged_in_always_gets(c, answer) ==
    [ret |-> answer = "200_success", gets |-> TRUE, raised |-> FALSE]

\* is_logged_in that takes every 200 answer for a live session
is_logged_in_any_200(c, answer) ==
    IF ~Truthy(c) THEN [ret |-> FALSE, gets |-> FALSE, raised |-> FALSE]
    ELSE [ret |-> answer \in {"200_success", "200_other_json",
                              "200_json_not_object", "200_not_json"},
          gets |-> TRUE, raised |-> FALSE]

\* JAccountLogin.is_logged_in: the value returned, whether the GET of
\* LOGIN_CHECK_URL was sent, and whether an exception left the method
is_logged_in(c, answer) ==
    IF ~Truthy(c) THEN [ret |-> FALSE, gets |-> FALSE, raised |-> FALSE]
    ELSE IF answer = "network_error"
    THEN [ret |-> FALSE, gets |-> TRUE, raised |-> FALSE]
    ELSE IF answer \in {"200_success", "200_other_json",
                        "200_json_not_object", "200_not_json"}
            /\ json_success_check(answer) = "return_true"
    THEN [ret |-> TRUE, gets |-> TRUE, raised |-> FALSE]
    ELSE [ret |-> FALSE, gets |-> TRUE, raised |-> FALSE]

\* the jar keeps a cookie per (domain, name): "" is the domain of a cookie
\* put there by session.cookies.set(key, value), "sso" the domain of the
\* cookies the remote side sets
JarKeys == {"", "sso"} \X CookieNames
EmptyJar == [k \in {} |-> "v1"]
JarNames(j) == {k[2] : k \in DOMAIN j}

\* the file at config_path: not there, a JSON object, or cut-off text
NoFile == [kind |-> "absent", map |-> EmptyMap]
JsonFile(m) == [kind |-> "json", map |-> m]
PartialFile == [kind |-> "partial", map |-> EmptyMap]

\* for cookie in self.session.cookies: self.cookies[cookie.name] =
\* cookie.value.  Two cookies of one name in two domains leave the value of
\* the one iterated last, which the jar's iteration order decides.
Snapshots(j) ==
    {m \in [JarNames(j) -> JarValues] :
        \A n \in JarNames(j) : \E k \in DOMAIN j : k[2] = n /\ j[k] = m[n]}

\* the remote side's Set-Cookie headers, applied to the jar
SetCookies(j, sc) ==
    [k \in DOMAIN j \cup {<<"sso", n>> : n \in DOMAIN sc} |->
        IF k[1] = "sso" /\ k[2] \in DOMAIN sc THEN sc[k[2]] ELSE j[k]]

\* _save_cookies: nothing is written for None or {}; open() may fail and
\* leave the file as it was, json.dump may fail after open() truncated it
_save_cookies(c, f, write) ==
    IF ~Truthy(c) THEN f
    ELSE IF write = "ok" THEN JsonFile(c.map)
    ELSE IF write = "open_fails" THEN f
    ELSE PartialFile

\* _load_cookies that puts every member of the file into the jar
_load_cookies_keep_all(f) ==
    IF f.kind = "json"
    THEN [cookies |-> CookieDict(f.map),
          jar |-> [k \in {<<"", n>> : n \in DOMAIN f.map} |-> f.map[k[2]]]]
    ELSE [cookies |-> NoCookies, jar |-> EmptyJar]

\* session.cookies.set(key, value) for every member of the dict d, on the
\* empty jar of a new requests.Session: a value of None (JSON null) takes
\* the cookie of that name out of the jar instead of putting one in
cookies_set_all(d) ==
    [k \in {<<"", n>> : n \in {x \in DOMAIN d : d[x] # None}} |-> d[k[2]]]

\* _load_cookies into a new requests.Session
_load_cookies(f) ==
    IF f.kind = "json"
    THEN [cookies |-> CookieDict(f.map), jar |-> cookies_set_all(f.map)]
    ELSE [cookies |-> NoCookies, jar |-> EmptyJar]

\* how a login attempt ends: at the step that raises, with the final URL
\* still the login page, or with success
LoginOutcomes ==
    {"bootstrap_raises", "captcha_raises", "captcha_save_raises",
     "input_raises", "input_interrupted", "post_raises", "rejected",
     "accepted"}

\* `except Exception` of login_with_password: what the steps raise is a
\* subclass of Exception (requests' errors, OSError, EOFError from input()
\* at end of input), except the KeyboardInterrupt that input() raises when
\* the prompt is answered with Ctrl-C, which derives from BaseException
CaughtByExceptException(outcome) == outcome # "input_interrupted"

\* login_with_password that snapshots and saves before it looks at the
\* final URL
login_with_password_save_first(c, j, f, outcome, snap, write) ==
    IF outcome \notin {"accepted", "rejected"}
    THEN [ret |-> FALSE, raised |-> ~CaughtByExceptException(outcome),
          cookies |-> c, file |-> f]
    ELSE [ret |-> outcome = "accepted", raised |-> FALSE,
          cookies |-> CookieDict(snap),
          file |-> _save_cookies(CookieDict(snap), f, write)]

\* login_with_password, after the network exchange left the jar as j:
\* the value returned (none when an exception leaves the method),
\* self.cookies and the file afterwards
login_with_password(c, j, f, outcome, snap, write) ==
    IF outcome \notin {"accepted", "rejected"}
    THEN [ret |-> FALSE, raised |-> ~CaughtByExceptException(outcome),
          cookies |-> c, file |-> f]
    ELSE IF outcome = "rejected"
    THEN [ret |-> FALSE, raised |-> FALSE, cookies |-> c, file |-> f]
    ELSE [ret |-> TRUE, raised |-> FALSE, cookies |-> CookieDict(snap),
          file |-> _save_cookies(CookieDict(snap), f, write)]

\* logout: the remote GET, then the local clean-up; an exception anywhere
\* in between ends it with False
logout(c, j, f, step) ==
    IF step = "get_raises"
    THEN [ret |-> FALSE, cookies |-> c, jar |-> j, file |-> f]
    ELSE IF step = "unlink_raises" /\ f.kind # "absent"
    THEN [ret |-> FALSE, cookies |-> NoCookies, jar |-> EmptyJar, file |-> f]
    ELSE [ret |-> TRUE, cookies |-> NoCookies, jar |-> EmptyJar,
          file |-> NoFile]

----------------------------------------------------------------------------
(* Session monitor state *)

ThreadIds == 1..MaxThreads

\* the None that self._session_monitor_thread holds before the first start
NoThread == 0

\* a threading.Thread: not made yet, made but not started, running its
\* target, or returned from it; `told` remembers that stop_session_monitor
\* set the stop signal while the thread was alive; `at` is the line of
\* _session_monitor_task the thread stands at, the top of the loop (459,
\* where it also sleeps) or the body of the check (463)
NoThreads ==
    [t \in ThreadIds |-> [state |-> "unborn", told |-> FALSE, at |-> "459"]]

\* COOKIE_CHECK_INTERVAL, 300 seconds, in units of 100 seconds
COOKIE_CHECK_INTERVAL == 3

\* time.time() - self._last_check_time in the same units; all the code
\* does with it is compare it with COOKIE_CHECK_INTERVAL, so it is
\* counted up to there
Ages == 0..COOKIE_CHECK_INTERVAL
Later(age) == IF age < COOKIE_CHECK_INTERVAL THEN age + 1 ELSE age

\* the monitor fields as __init__ leaves them: no thread, stop signal
\* clear, no callback, _last_check_time = 0 (a check is due)
IdleMonitor ==
    [thread |-> NoThread, stop |-> FALSE, callback |-> None,
     age |-> COOKIE_CHECK_INTERVAL]

\* no GET /mcp connection, no JAccountLogin object made, main() of the
\* harness not entered
NoConns == <<>>
NoInstance == [held |-> 0, made |-> 0, config_path |-> None, given |-> {}]
NoHarness ==
    [at |-> "none", no_login |-> FALSE, ensured |-> "none", ran |-> FALSE,
     how |-> "none"]

\* no monitor thread has run a liveness check so far
NoWatch == [elapsed |-> COOKIE_CHECK_INTERVAL, outcome |-> "none"]

Callbacks == {None, "cb1", "cb2"}

\* Thread.is_alive()
is_alive(th, t) == th[t].state = "alive"
AliveThreads(th) == {t \in ThreadIds : is_alive(th, t)}

\* `self._session_monitor_thread and self._session_monitor_thread
\* .is_alive()`, the test both start_session_monitor and
\* stop_session_monitor begin with
monitor_running(m, th) == m.thread # NoThread /\ is_alive(th, m.thread)

\* a thread that is not inside a call of the manager
Idle == [at |-> "idle", cb |-> None]
NoCallers == [c \in {} |-> Idle]

----------------------------------------------------------------------------
(* JSON-RPC envelopes *)

\* values of the `id` member: not there, JSON null, or a value
Ids == {Absent, "null", "7"}

\* values of the mcp-session-id request header
SessionIds == {"s1", "s2", "s3"}
SessionHeaders == {Absent, "", "bogus"} \cup SessionIds

\* values of the Accept request header
Accepts == {"application/json", "text/event-stream", "both", "text/html"}
AcceptsJson(a) == a \in {"application/json", "both"}
AcceptsSse(a) == a \in {"text/event-stream", "both"}

Methods ==
    {"initialize", "tools/list", "tools/call", "notifications/initialized",
     "notifications/cancelled", "ping", Absent}

\* a prefix test that no method passes
StartsWithNotifications_never(m) == FALSE

\* method.startswith("notifications/"); a missing method is None
StartsWithNotifications(m) ==
    m \in {"notifications/initialized", "notifications/cancelled"}

\* what a tool body does when it is run
ToolEnvs == {"returns_str", "returns_obj", "raises"}

NoText == [t |-> "none", v |-> <<>>]
NoResult ==
    [type |-> "none", serverName |-> "", listChanged |-> TRUE,
     tools |-> <<>>, text |-> NoText]

NoEnvelope ==
    [kind |-> "none", id |-> None, code |-> 0, message |-> "",
     result |-> NoResult]

ErrorEnvelope(request_id, code, message) ==
    [kind |-> "error", id |-> request_id, code |-> code,
     message |-> message, result |-> NoResult]

ResultEnvelope(request_id, result) ==
    [kind |-> "result", id |-> request_id, code |-> 0, message |-> "",
     result |-> result]

\* data.get("id"): None when the member is missing or null
DataGetId(req) == IF req.id \in {Absent, "null"} THEN None ELSE req.id

\* the return value of a tool body, and json.dumps of it
ToolReturn(env) ==
    IF env = "returns_str" THEN [t |-> "str", v |-> <<"data">>]
    ELSE [t |-> "obj", v |-> <<"data">>]
JsonDumps(val) == [t |-> "str", v |-> <<"json">> \o val.v]

\* a set in some fixed order (dict iteration order)
RECURSIVE SeqOfSet(_)
SeqOfSet(S) ==
    IF S = {} THEN <<>>
    ELSE LET x == CHOOSE y \in S : TRUE IN <<x>> \o SeqOfSet(S \ {x})

----------------------------------------------------------------------------
(* Handlers.  A handler returns                                            *)
(*   raised   : an exception left the handler                              *)
(*   ret      : the response envelope it returned                          *)
(*   sessions : self.sessions afterwards                                   *)
(*   sid      : request._session_id afterwards (Absent when not set)       *)
(*   invoked  : the calls of registered tools it made                      *)
(*   bodyRan  : whether a tool body was run                                *)
(*   manager  : the calls it made on the login manager                     *)
(***************************************************************************)

Handled(raised, ret, sess, sid, invoked, bodyRan) ==
    [raised |-> raised, ret |-> ret, sessions |-> sess, sid |-> sid,
     invoked |-> invoked, bodyRan |-> bodyRan, manager |-> <<>>]

\* str(e) of what a tool body raises, of the ValueError of the login
\* check in wrapper, and of the UnboundLocalError of reading `result`
ToolFailure == "tool failure"
LoginRequired == "login required"
ResultUnbound == "local variable 'result' referenced before assignment"

\* wrapper without the login check before func(context, ...)
wrapper_unchecked(info, loggedIn, env) ==
    IF env = "raises"
    THEN [raised |-> TRUE, bodyRan |-> TRUE, value |-> NoText,
          error |-> ToolFailure]
    ELSE [raised |-> FALSE, bodyRan |-> TRUE, value |-> ToolReturn(env),
          error |-> ""]

\* register_tool's wrapper(context, **kwargs); `error` is str(e) of the
\* exception that leaves it
wrapper(info, loggedIn, env) ==
    IF info.require_login /\ ~loggedIn
    THEN [raised |-> TRUE, bodyRan |-> FALSE, value |-> NoText,
          error |-> LoginRequired]
    ELSE IF env = "raises"
         THEN [raised |-> TRUE, bodyRan |-> TRUE, value |-> NoText,
               error |-> ToolFailure]
         ELSE [raised |-> FALSE, bodyRan |-> TRUE, value |-> ToolReturn(env),
               error |-> ""]

\* a try block that makes sure of the login before it goes on
tool_call_try_ensures_login(info, session_id, arguments, loggedIn, env) ==
    [raised |-> TRUE, text |-> NoText, invoked |-> <<>>, bodyRan |-> FALSE,
     error |-> ResultUnbound,
     manager |-> <<"get_instance", "ensure_logged_in">>]

\* _handle_tools_call, the try block: SJTUContext(session_id) asks
\* JAccountLoginManager for the instance; the call of tool_func is commented
\* out, so `result` is read before it is bound and the read raises
tool_call_try(info, session_id, arguments, loggedIn, env) ==
    [raised |-> TRUE, text |-> NoText, invoked |-> <<>>, bodyRan |-> FALSE,
     error |-> ResultUnbound, manager |-> <<"get_instance">>]

\* _handle_initialize without request._session_id = session_id
_handle_initialize_no_header(req, request_id, sid, sess) ==
    IF req.pkind = "bad"
    THEN Handled(TRUE, NoEnvelope, sess, Absent, <<>>, FALSE)
    ELSE LET entry == [protocol_version |-> "2024-11-05"]
             result == [type |-> "initialize",
                        serverName |-> "SJTU-Chatbot MCP Server",
                        listChanged |-> FALSE, tools |-> <<>>,
                        text |-> NoText]
         IN Handled(FALSE, ResultEnvelope(request_id, result),
                    [s \in DOMAIN sess \cup {sid} |->
                        IF s = sid THEN entry ELSE sess[s]],
                    Absent, <<>>, FALSE)

\* _handle_initialize that keeps the new entry only
_handle_initialize_forgets(req, request_id, sid, sess) ==
    IF req.pkind = "bad"
    THEN Handled(TRUE, NoEnvelope, sess, Absent, <<>>, FALSE)
    ELSE LET pv == IF req.protocolVersion = Absent THEN "2024-11-05"
                   ELSE req.protocolVersion
             result == [type |-> "initialize",
                        serverName |-> "SJTU-Chatbot MCP Server",
                        listChanged |-> FALSE, tools |-> <<>>,
                        text |-> NoText]
         IN Handled(FALSE, ResultEnvelope(request_id, result),
                    [s \in {sid} |-> [protocol_version |-> pv]],
                    sid, <<>>, FALSE)

_handle_initialize(req, request_id, sid, sess) ==
    IF req.pkind = "bad"
    THEN Handled(TRUE, NoEnvelope, sess, Absent, <<>>, FALSE)
    ELSE LET pv == IF req.protocolVersion = Absent THEN "2024-11-05"
                   ELSE req.protocolVersion
             entry == [protocol_version |-> pv]
             result == [type |-> "initialize",
                        serverName |-> "SJTU-Chatbot MCP Server",
                        listChanged |-> FALSE, tools |-> <<>>,
                        text |-> NoText]
         IN Handled(FALSE, ResultEnvelope(request_id, result),
                    [s \in DOMAIN sess \cup {sid} |->
                        IF s = sid THEN entry ELSE sess[s]],
                    sid, <<>>, FALSE)

\* _handle_tools_list that leaves out the tools that require login
_handle_tools_list_open_only(req, request_id, sess, reg) ==
    IF req.session \notin {Absent, ""} /\ req.session \notin DOMAIN sess
    THEN Handled(FALSE,
                 ErrorEnvelope(request_id, -32600, "Invalid session ID"),
                 sess, Absent, <<>>, FALSE)
    ELSE LET keys == SeqOfSet({k \in DOMAIN reg : ~reg[k].require_login})
             result == [type |-> "tools", serverName |-> "",
                        listChanged |-> TRUE,
                        tools |-> [i \in 1..Len(keys) |-> reg[keys[i]].name],
                        text |-> NoText]
         IN Handled(FALSE, ResultEnvelope(request_id, result),
                    sess, Absent, <<>>, FALSE)

_handle_tools_list(req, request_id, sess, reg) ==
    IF req.session \notin {Absent, ""} /\ req.session \notin DOMAIN sess
    THEN Handled(FALSE,
                 ErrorEnvelope(request_id, -32600, "Invalid session ID"),
                 sess, Absent, <<>>, FALSE)
    ELSE LET keys == SeqOfSet(DOMAIN reg)
             result == [type |-> "tools", serverName |-> "",
                        listChanged |-> TRUE,
                        tools |-> [i \in 1..Len(keys) |-> reg[keys[i]].name],
                        text |-> NoText]
         IN Handled(FALSE, ResultEnvelope(request_id, result),
                    sess, Absent, <<>>, FALSE)

\* _handle_tools_call without the `tool_name not in self.tools` test: the
\* lookup self.tools[tool_name] raises KeyError inside the try block
_handle_tools_call_no_lookup(req, request_id, sess, reg, loggedIn) ==
    IF req.pkind = "bad"
    THEN Handled(TRUE, NoEnvelope, sess, Absent, <<>>, FALSE)
    ELSE Handled(FALSE,
            ErrorEnvelope(request_id, -32603,
                          "Tool execution failed: KeyError"),
            sess, Absent, <<>>, FALSE)

_handle_tools_call(req, request_id, sess, reg, loggedIn) ==
    IF req.pkind = "bad"
    THEN Handled(TRUE, NoEnvelope, sess, Absent, <<>>, FALSE)
    ELSE IF req.name \notin DOMAIN reg
    THEN Handled(FALSE, ErrorEnvelope(request_id, -32602, "Tool not found"),
                 sess, Absent, <<>>, FALSE)
    ELSE LET t == tool_call_try(reg[req.name], req.session, req.arguments,
                                loggedIn, req.toolEnv)
         IN IF t.raised
            THEN [Handled(FALSE,
                    ErrorEnvelope(request_id, -32603,
                                  "Tool execution failed: " \o t.error),
                    sess, Absent, t.invoked, t.bodyRan)
                  EXCEPT !.manager = t.manager]
            ELSE [Handled(FALSE,
                    ResultEnvelope(request_id,
                        [type |-> "content", serverName |-> "",
                         listChanged |-> TRUE, tools |-> <<>>,
                         text |-> t.text]),
                    sess, Absent, t.invoked, t.bodyRan)
                  EXCEPT !.manager = t.manager]

\* the last branch of the routing that answers a request as it drops a
\* notification
method_not_found_silent(req, request_id, sess) ==
    Handled(FALSE, NoEnvelope, sess, Absent, <<>>, FALSE)

\* the last branch of the routing (lines 313-328): a method that is none
\* of the known ones is dropped when it came without an id and answered
\* with -32601 when it came with one
method_not_found(req, request_id, sess) ==
    IF request_id = None
    THEN Handled(FALSE, NoEnvelope, sess, Absent, <<>>, FALSE)
    ELSE Handled(FALSE,
            ErrorEnvelope(request_id, -32601,
                          "Method not found: " \o req.method),
            sess, Absent, <<>>, FALSE)

\* the method routing of _process_jsonrpc_request (its try block)
route(req, request_id, sid, sess, reg, loggedIn) ==
    LET is_notification == request_id = None
        nothing == Handled(FALSE, NoEnvelope, sess, Absent, <<>>, FALSE)
    IN IF req.method = "initialize"
       THEN IF is_notification THEN nothing
            ELSE _handle_initialize(req, request_id, sid, sess)
       ELSE IF req.method = "tools/list"
       THEN IF is_notification THEN nothing
            ELSE _handle_tools_list(req, request_id, sess, reg)
       ELSE IF req.method = "tools/call"
       THEN IF is_notification THEN nothing
            ELSE _handle_tools_call(req, request_id, sess, reg, loggedIn)
       ELSE IF req.method = "notifications/initialized"
       THEN nothing
       ELSE IF req.method = Absent
       THEN \* method is None: None.startswith raises AttributeError
            Handled(TRUE, NoEnvelope, sess, Absent, <<>>, FALSE)
       ELSE IF StartsWithNotifications(req.method)
       THEN nothing
       ELSE method_not_found(req, request_id, sess)

\* _process_jsonrpc_request that answers nothing when a handler raises
_process_jsonrpc_request_drop(req, sid, sess, reg, loggedIn) ==
    LET request_id == DataGetId(req)
        h == route(req, request_id, sid, sess, reg, loggedIn)
    IN IF ~h.raised THEN h
       ELSE Handled(FALSE, NoEnvelope, h.sessions, h.sid, h.invoked,
                    h.bodyRan)

\* _process_jsonrpc_request: route, and turn an exception into the
\* internal-error envelope, or into nothing for a notification
_process_jsonrpc_request(req, sid, sess, reg, loggedIn) ==
    LET request_id == DataGetId(req)
        h == route(req, request_id, sid, sess, reg, loggedIn)
    IN IF ~h.raised THEN h
       ELSE IF request_id = None
            THEN [Handled(FALSE, NoEnvelope, h.sessions, h.sid,
                          h.invoked, h.bodyRan)
                  EXCEPT !.manager = h.manager]
            ELSE [Handled(FALSE,
                    ErrorEnvelope(request_id, -32603, "Internal error"),
                    h.sessions, h.sid, h.invoked, h.bodyRan)
                  EXCEPT !.manager = h.manager]

----------------------------------------------------------------------------
(* POST /mcp *)

Req(a, b, m, i, pk, n, pv, s, e) ==
    [accept |-> a, body |-> b, method |-> m, id |-> i, pkind |-> pk,
     name |-> n, arguments |-> IF n = Absent THEN Absent ELSE "args",
     protocolVersion |-> pv, session |-> s, toolEnv |-> e]

\* a JSONResponse the handler builds itself, with an error envelope under
\* the id "server-error" (lines 146-157, 167-178 and 232-243)
ErrorResponse(status, code, message, sess) ==
    [dispatched |-> FALSE, escaped |-> FALSE, raised |-> FALSE,
     ret |-> NoEnvelope, status |-> status, format |-> "json",
     body |-> ErrorEnvelope("server-error", code, message),
     stream |-> <<>>, hdr |-> Absent, sessions |-> sess, invoked |-> <<>>,
     bodyRan |-> FALSE, manager |-> <<>>]

\* the body parse that takes an empty body for an empty JSON object
json_loads_empty_is_object(body) ==
    IF body = "invalid"
    THEN [raised |-> TRUE, error |-> "Expecting value"]
    ELSE [raised |-> FALSE, error |-> ""]

\* lines 161-165: `raise ValueError("Empty request body")` for an empty
\* body, json.loads(body.decode('utf-8')) for the rest
json_loads(body) ==
    IF body = "empty"
    THEN [raised |-> TRUE, error |-> "Empty request body"]
    ELSE IF body = "invalid"
    THEN [raised |-> TRUE, error |-> "Expecting value"]
    ELSE [raised |-> FALSE, error |-> ""]

\* the choice of the format that looks for text/event-stream first
response_format_sse_first(accept) ==
    IF AcceptsSse(accept) THEN "sse" ELSE "json"

\* lines 200-228: JSON when the Accept header names application/json, an
\* event stream when it names text/event-stream only, JSON otherwise
response_format(accept) ==
    IF AcceptsJson(accept) THEN "json"
    ELSE IF AcceptsSse(accept) THEN "sse"
    ELSE "json"

\* json.dumps(response_data, ensure_ascii=False): the JSON text of a value
JsonText(val) == [json |-> val]

\* the event stream that ends after the message event
_create_sse_response_no_done(response_data) ==
    <<[event |-> "message", data |-> JsonText(response_data)]>>

\* _create_sse_response: the events the generator yields before it ends
_create_sse_response(response_data) ==
    <<[event |-> "message", data |-> JsonText(response_data)],
      [event |-> "done", data |-> JsonText(NoEnvelope)]>>

\* an outer handler that lets the exception go on to the framework
top_level_except_reraises(error, sess) ==
    [ErrorResponse(500, -32603, "Internal error: " \o error, sess) EXCEPT
        !.dispatched = TRUE, !.escaped = TRUE, !.raised = TRUE,
        !.body = NoEnvelope]

\* lines 230-243: the outer `except Exception` of the handler answers 500
\* with the internal-error envelope
top_level_except(error, sess) ==
    [ErrorResponse(500, -32603, "Internal error: " \o error, sess) EXCEPT
        !.dispatched = TRUE, !.escaped = TRUE]

\* str(e) of the AttributeError that data.get raises for a list
NoGetAttribute == "'list' object has no attribute 'get'"

\* _handle_mcp_request that sends the empty body of a notification with
\* the default status 200
_handle_mcp_request_200(req, sid, sess, reg, loggedIn) ==
    IF ~AcceptsJson(req.accept) /\ ~AcceptsSse(req.accept)
    THEN ErrorResponse(406, -32600, "Not Acceptable", sess)
    ELSE IF json_loads(req.body).raised
    THEN ErrorResponse(400, -32700,
                       "Parse error: " \o json_loads(req.body).error, sess)
    ELSE IF req.body = "nonobject"
    THEN top_level_except(NoGetAttribute, sess)
    ELSE LET p == _process_jsonrpc_request(req, sid, sess, reg, loggedIn)
             format == IF p.ret.kind = "none" THEN "empty"
                       ELSE response_format(req.accept)
         IN [dispatched |-> TRUE, escaped |-> FALSE, raised |-> FALSE,
             ret |-> p.ret, status |-> 200, format |-> format,
             body |-> p.ret,
             stream |-> IF format = "sse" THEN _create_sse_response(p.ret)
                        ELSE <<>>,
             hdr |-> p.sid, sessions |-> p.sessions,
             invoked |-> p.invoked, bodyRan |-> p.bodyRan,
             manager |-> p.manager]

\* _handle_mcp_request: the Accept gate, the body parse, the dispatch and
\* the choice of the response format
_handle_mcp_request(req, sid, sess, reg, loggedIn) ==
    IF ~AcceptsJson(req.accept) /\ ~AcceptsSse(req.accept)
    THEN ErrorResponse(406, -32600, "Not Acceptable", sess)
    ELSE IF json_loads(req.body).raised
    THEN ErrorResponse(400, -32700,
                       "Parse error: " \o json_loads(req.body).error, sess)
    ELSE IF req.body = "nonobject"
    THEN \* data.get raises before the dispatcher's try block
         top_level_except(NoGetAttribute, sess)
    ELSE LET p == _process_jsonrpc_request(req, sid, sess, reg, loggedIn)
             format == response_format(req.accept)
         IN IF p.ret.kind = "none"
            THEN [dispatched |-> TRUE, escaped |-> FALSE, raised |-> FALSE,
                  ret |-> p.ret, status |-> 202, format |-> "empty",
                  body |-> NoEnvelope, stream |-> <<>>, hdr |-> Absent,
                  sessions |-> p.sessions, invoked |-> p.invoked,
                  bodyRan |-> p.bodyRan,
                  manager |-> p.manager]
            ELSE [dispatched |-> TRUE, escaped |-> FALSE, raised |-> FALSE,
                  ret |-> p.ret, status |-> 200, format |-> format,
                  body |-> p.ret,
                  stream |-> IF format = "sse"
                             THEN _create_sse_response(p.ret) ELSE <<>>,
                  hdr |-> p.sid, sessions |-> p.sessions,
                  invoked |-> p.invoked, bodyRan |-> p.bodyRan,
                  manager |-> p.manager]

\* the requests the model sends: every method as a request (id "7") and
\* as a notification (no id), ...
ParamShapes ==
    {<<"absent", Absent>>, <<"bad", Absent>>, <<"object", "2024-11-05">>}

InitializeRequests ==
    {Req("application/json", "object", "initialize", i, ps[1], Absent, ps[2],
         Absent, "-") : i \in {Absent, "7"}, ps \in ParamShapes}

ToolsListRequests ==
    {Req("application/json", "object", "tools/list", i, "object", Absent,
         Absent, s, "-") :
        i \in {Absent, "7"}, s \in {Absent, "", "s1", "bogus"}}

ToolsCallRequests ==
    {Req("application/json", "object", "tools/call", i, "object", n, Absent,
         s, e) :
        i \in {Absent, "7"}, n \in ToolNames, s \in {Absent, "s1", "bogus"},
        e \in ToolEnvs}
    \cup
    {Req("application/json", "object", "tools/call", i, pn[1], pn[2], Absent,
         s, "-") :
        i \in {Absent, "7"},
        pn \in {<<"bad", Absent>>, <<"object", Absent>>,
                <<"object", "no_such_tool">>},
        s \in {Absent, "bogus"}}

OtherRequests ==
    {Req("application/json", "object", m, i, "absent", Absent, Absent, Absent,
         "-") :
        i \in {Absent, "7"},
        m \in Methods \ {"initialize", "tools/list", "tools/call"}}

\* ... one envelope of every method with "id": null, ...
Plain(r) ==
    /\ r.pkind # "bad"
    /\ r.session = Absent
    /\ r.name \in {Absent, "jwc_news"}
    /\ r.toolEnv \in {"-", "returns_str"}

NullIdRequests ==
    {[r EXCEPT !.id = "null"] :
        r \in {q \in InitializeRequests \cup ToolsListRequests
                     \cup ToolsCallRequests \cup OtherRequests :
                  Plain(q) /\ q.id = "7"}}

\* ... and the envelopes under the other Accept headers, and the bodies
\* that are not a JSON object
TransportRequests ==
    {[r EXCEPT !.accept = a] :
        r \in {q \in InitializeRequests \cup ToolsListRequests
                     \cup ToolsCallRequests \cup OtherRequests :
                  Plain(q) /\ q.method # Absent},
        a \in Accepts \ {"application/json"}}
    \cup
    {Req(a, b, Absent, Absent, "absent", Absent, Absent, Absent, "-") :
        a \in Accepts, b \in {"empty", "invalid", "nonobject"}}

Requests ==
    InitializeRequests \cup ToolsListRequests \cup ToolsCallRequests
    \cup OtherRequests \cup NullIdRequests \cup TransportRequests

\* the identifiers uuid4 can return to a request: one not handed out yet
Uuid4(req, sess) ==
    IF req.method = "initialize" THEN SessionIds \ DOMAIN sess ELSE {"-"}

\* one POST /mcp, handled by handle_post; sid is the uuid4 it would draw
HandlePost(req, sid) ==
    \E h \in {_handle_mcp_request(req, sid, sessions, tools,
                                   is_logged_in(cookies, remote).ret)} :
       /\ Cardinality(DOMAIN h.sessions) <= MaxSessions
       /\ sessions' = h.sessions
       /\ issued' = IF h.hdr = Absent THEN issued ELSE issued \cup {h.hdr}
       /\ last' = [op |-> "post", req |-> req, before |-> sessions,
                   loggedIn |-> is_logged_in(cookies, remote).ret,
                   dispatched |-> h.dispatched, escaped |-> h.escaped,
                   raised |-> h.raised,
                   ret |-> h.ret, status |-> h.status, format |-> h.format,
                   body |-> h.body, stream |-> h.stream, hdr |-> h.hdr,
                   invoked |-> h.invoked, bodyRan |-> h.bodyRan,
                   manager |-> h.manager]
       /\ UNCHANGED <<tools, cookies, jar, file, remote, monVars, procVars>>

\* a registered tool called as a Python function (as sjtu_activity_signup
\* calls get_account_info): register_tool's wrapper runs
CallTool(n, env) ==
    LET loggedIn == is_logged_in(cookies, remote).ret
        w == wrapper(tools[n], loggedIn, env)
    IN /\ n \in DOMAIN tools
       /\ last' = [op |-> "wrapper", tool |-> n, env |-> env,
                   require_login |-> tools[n].require_login,
                   loggedIn |-> loggedIn, raised |-> w.raised,
                   bodyRan |-> w.bodyRan, value |-> w.value]
       /\ UNCHANGED <<tools, sessions, issued, cookies, jar, file, remote,
                       monVars, procVars>>

\* the remote account endpoint changes its answer (the SSO session expires
\* or comes back)
RemoteChange(answer) ==
    /\ answer # remote
    /\ remote' = answer
    /\ UNCHANGED <<tools, sessions, issued, cookies, jar, file, last, monVars, procVars>>

NoOp == [op |-> "none"]

InitServer ==
    /\ tools \in {_scan_and_register_tools(L) : L \in SUBSET ToolModules}
    /\ sessions = [s \in {} |-> [protocol_version |-> "2024-11-05"]]
    /\ issued = {}
    /\ cookies = CookieDict([n \in {"JAAuthCookie"} |-> "v1"])
    /\ file = JsonFile(cookies.map)
    /\ jar = _load_cookies(file).jar
    /\ remote = "200_success"
    /\ monitor = IdleMonitor
    /\ threads = NoThreads
    /\ watch = NoWatch
    /\ conns = NoConns
    /\ instance = NoInstance
    /\ harness = NoHarness
    /\ pc = NoCallers
    /\ last = NoOp

NextServer ==
    \/ \E req \in Requests : \E sid \in Uuid4(req, sessions) :
          HandlePost(req, sid)
    \/ \E n \in ToolNames, env \in ToolEnvs : CallTool(n, env)
    \/ \E answer \in {"200_success", "302_login"} : RemoteChange(answer)

SpecServer == InitServer /\ [][NextServer]_vars

----------------------------------------------------------------------------
(* Properties of the dispatcher, checked under SpecServer *)

\* the last operation was a POST /mcp whose body was a JSON object and
\* which reached _process_jsonrpc_request
Dispatched ==
    /\ last.op = "post"
    /\ last.dispatched
    /\ last.req.body = "object"

\* request and notification, as the dispatcher tells them apart
IsRequest == DataGetId(last.req) # None
IsNotification == DataGetId(last.req) = None

\* C1 as stated: every envelope with an id, whatever its method, gets
\* exactly one response envelope, and the envelope carries the request's id.
C1_EveryIdGetsResponse ==
    (Dispatched /\ IsRequest) =>
        /\ last.ret.kind \in {"result", "error"}
        /\ last.ret.id = last.req.id

\* C1 as amended: an envelope with an id whose method is not a
\* notifications/ method gets exactly one response envelope, result or
\* error, with the request's id; it is the body of the HTTP 200 answer.
C1_RequestGetsResponseWithId ==
    (Dispatched /\ IsRequest /\ ~StartsWithNotifications(last.req.method)) =>
        /\ last.ret.kind \in {"result", "error"}
        /\ last.ret.id = last.req.id
        /\ last.status = 200
        /\ last.body = last.ret

C1_Witness ==
    /\ Dispatched /\ IsRequest
    /\ last.req.method = Absent
    /\ last.ret.kind = "error"
    /\ last.ret.id = "7"

\* C2: an envelope without an id gets no response envelope under any
\* method, also when handling raises; POST /mcp answers 202 with an empty
\* body and no error envelope.
C2_NotificationGetsNoResponse ==
    (Dispatched /\ IsNotification) =>
        /\ last.ret = NoEnvelope
        /\ last.status = 202
        /\ last.format = "empty"
        /\ last.body = NoEnvelope
        /\ ~last.escaped

C2_Witness ==
    /\ Dispatched /\ IsNotification
    /\ last.req.method = Absent
    /\ last.status = 202

\* C3 as stated: tools/call with an id on a registered tool whose execution
\* succeeds invokes the tool exactly once, with the supplied arguments and
\* session id, and returns one text block: the string itself, or the JSON
\* serialization of a structured value.
C3_ToolInvokedAndSerialized ==
    (/\ Dispatched /\ IsRequest
     /\ last.req.method = "tools/call"
     /\ last.req.pkind = "object"
     /\ last.req.name \in DOMAIN tools
     /\ ~wrapper(tools[last.req.name], last.loggedIn, last.req.toolEnv).raised)
    =>
        /\ last.invoked = <<[tool |-> last.req.name,
                             arguments |-> last.req.arguments,
                             session |-> last.req.session]>>
        /\ last.ret.kind = "result"
        /\ last.ret.result.type = "content"
        /\ last.ret.result.text =
              LET val == ToolReturn(last.req.toolEnv)
              IN IF val.t = "str" THEN val ELSE JsonDumps(val)

C5_AuthGateBeforeBody ==
    /\ (/\ Dispatched /\ IsRequest
        /\ last.req.method = "tools/call"
        /\ last.req.pkind = "object"
        /\ last.req.name \in DOMAIN tools
        /\ tools[last.req.name].require_login
        /\ ~last.loggedIn)
       => (last.ret.kind = "error" /\ ~last.bodyRan)
    /\ (last.op = "wrapper" /\ last.require_login /\ ~last.loggedIn)
       => (last.raised /\ ~last.bodyRan)

C5_Witness ==
    /\ Dispatched /\ IsRequest
    /\ last.req.method = "tools/call"
    /\ last.req.name = "account_info"
    /\ "account_info" \in DOMAIN tools
    /\ ~last.loggedIn
    /\ last.ret.kind = "error"

\* C6 as stated: tools/list or tools/call with an mcp-session-id that is not
\* in the registry gets the invalid-session error with the request's id,
\* and no tool is invoked.
C6_UnknownSessionRejected ==
    (/\ Dispatched /\ IsRequest
     /\ last.req.method \in {"tools/list", "tools/call"}
     /\ last.req.pkind # "bad"
     /\ last.req.session \notin {Absent, ""}
     /\ last.req.session \notin DOMAIN last.before)
    =>
        /\ last.ret = ErrorEnvelope(last.req.id, -32600, "Invalid session ID")
        /\ last.invoked = <<>>

\* the initialize part and the tools/list part of C7
InitializeAllocates ==
    /\ Cardinality(DOMAIN sessions) = Cardinality(DOMAIN last.before) + 1
    /\ DOMAIN last.before \subseteq DOMAIN sessions
    /\ last.hdr \in DOMAIN sessions \ DOMAIN last.before
    /\ last.status = 200
    /\ last.ret.kind = "result"
    /\ last.ret.result.serverName # ""
    /\ last.ret.result.listChanged = FALSE

IssuedIdAccepted ==
    (/\ Dispatched /\ IsRequest
     /\ last.req.method = "tools/list"
     /\ last.req.session \in issued)
    => last.ret.kind = "result"

\* C7 as stated: every initialize request with an id allocates a session,
\* answers with serverInfo.name and tools.listChanged = false, and carries
\* the new identifier in Mcp-Session-Id; a tools/list with an identifier
\* sent that way is never rejected.
C7_EveryInitializeAllocates ==
    /\ (Dispatched /\ IsRequest /\ last.req.method = "initialize")
       => InitializeAllocates
    /\ IssuedIdAccepted

\* C7 as amended: the same, for the initialize requests whose params member
\* is missing or is a JSON object.
C7_InitializeAllocatesAndAnnounces ==
    /\ (/\ Dispatched /\ IsRequest /\ last.req.method = "initialize"
        /\ last.req.pkind # "bad")
       => InitializeAllocates
    /\ IssuedIdAccepted

C7_Witness ==
    /\ Dispatched /\ IsRequest
    /\ last.req.method = "tools/list"
    /\ last.req.session \in issued
    /\ last.ret.kind = "result"

\* the names a tools/list result carries
ListedNames == {last.ret.result.tools[i] : i \in DOMAIN last.ret.result.tools}

\* C8: tools/list without a session header, or with a known one, returns
\* one entry per registered tool, named as registered; it fails only when
\* the supplied session id is unknown.
C8_ToolsListIsRegistry ==
    (Dispatched /\ IsRequest /\ last.req.method = "tools/list") =>
        /\ (last.req.session \in {Absent, ""} \cup DOMAIN last.before) =>
              /\ last.ret.kind = "result"
              /\ last.ret.result.type = "tools"
              /\ ListedNames = {tools[k].name : k \in DOMAIN tools}
              /\ ListedNames = DOMAIN tools
              /\ Len(last.ret.result.tools) = Cardinality(DOMAIN tools)
        /\ (last.ret.kind # "result") =>
              /\ last.req.session \notin {Absent, ""}
              /\ last.req.session \notin DOMAIN last.before

C8_Witness ==
    /\ Dispatched /\ IsRequest
    /\ last.req.method = "tools/list"
    /\ last.req.session = "s1"
    /\ last.ret.kind = "result"
    /\ Len(last.ret.result.tools) = 2

\* C23 as stated: tools/call with an id on a registered tool that raises
\* (its body, or the login check in front of it) is answered with HTTP 200
\* and the internal-error envelope that carries the request's id and the
\* message of the tool's failure; no exception leaves the dispatcher.
C23_ToolFailureReported ==
    (/\ Dispatched /\ IsRequest
     /\ last.req.method = "tools/call"
     /\ last.req.pkind = "object"
     /\ last.req.name \in DOMAIN tools
     /\ wrapper(tools[last.req.name], last.loggedIn, last.req.toolEnv).raised)
    =>
        /\ last.status = 200
        /\ ~last.escaped /\ ~last.raised
        /\ last.body =
              ErrorEnvelope(last.req.id, -32603,
                  "Tool execution failed: " \o
                  wrapper(tools[last.req.name], last.loggedIn,
                          last.req.toolEnv).error)

\* a method that is neither initialize, tools/list, tools/call nor a
\* notifications/ method
UnknownMethod ==
    /\ last.req.method \notin {"initialize", "tools/list", "tools/call"}
    /\ last.req.method \notin {"notifications/initialized",
                               "notifications/cancelled"}

\* the method-not-found answer to a request, and the silent drop of a
\* notification that leaves the server as it was
UnknownMethodHandled ==
    IF IsRequest
    THEN /\ last.ret.kind = "error"
         /\ last.ret.code = -32601
         /\ last.ret.id = last.req.id
         /\ last.status = 200
         /\ last.body = last.ret
    ELSE /\ last.ret = NoEnvelope
         /\ last.status = 202
         /\ last.body = NoEnvelope
         /\ sessions = last.before
         /\ last.hdr = Absent
         /\ last.invoked = <<>>

\* C24 as stated: an envelope whose method is none of the known ones gets
\* the method-not-found error with its id when it carries an id, and is
\* dropped without a response and without a change of state when it does
\* not.
C24_UnknownMethodNotFound ==
    (Dispatched /\ UnknownMethod) => UnknownMethodHandled

\* C24 as amended: the same, for the envelopes whose method member is a
\* string.
C24_UnknownMethodNameNotFound ==
    (Dispatched /\ UnknownMethod /\ last.req.method # Absent)
        => UnknownMethodHandled

C24_Witness ==
    /\ Dispatched /\ IsRequest
    /\ last.req.method = "ping"
    /\ last.ret.code = -32601
    /\ last.ret.id = "7"

\* C25: an envelope whose method is notifications/initialized or starts
\* with notifications/ gets no response envelope, with an id or without,
\* and leaves the Session Registry and the tools alone.
C25_NotificationMethodsNeverAnswered ==
    (/\ Dispatched
     /\ last.req.method \in {"notifications/initialized",
                             "notifications/cancelled"})
    =>
        /\ last.ret = NoEnvelope
        /\ last.status = 202
        /\ last.body = NoEnvelope
        /\ sessions = last.before
        /\ last.hdr = Absent
        /\ last.invoked = <<>>
        /\ ~last.bodyRan

C25_Witness ==
    /\ Dispatched /\ IsRequest
    /\ last.req.method = "notifications/cancelled"
    /\ last.status = 202

\* C26: the Session Registry changes only in a step that handles an
\* initialize request with an id, and then by one new entry under an
\* identifier that is neither in the registry nor among the identifiers
\* issued before; the entries it held stay as they were.
C26_RegistryGrowsByInitializeOnly ==
    [][sessions' # sessions =>
          /\ last'.op = "post"
          /\ last'.req.method = "initialize"
          /\ DataGetId(last'.req) # None
          /\ \E s \in DOMAIN sessions' :
                /\ s \notin DOMAIN sessions
                /\ s \notin issued
                /\ DOMAIN sessions' = DOMAIN sessions \cup {s}
          /\ \A s \in DOMAIN sessions : sessions'[s] = sessions[s]]_vars

C26_Witness ==
    /\ Dispatched /\ IsRequest
    /\ last.req.method = "initialize"
    /\ Cardinality(DOMAIN last.before) = 1
    /\ Cardinality(DOMAIN sessions) = 2

\* C27: an Accept header that names neither application/json nor
\* text/event-stream is answered 406 and nothing is dispatched, no session
\* made and no tool run; a response envelope goes out as one JSON body
\* when the header names application/json (with text/event-stream or
\* without), and as an event stream when it names text/event-stream only.
C27_FormatFollowsAccept ==
    last.op = "post" =>
        /\ (~AcceptsJson(last.req.accept) /\ ~AcceptsSse(last.req.accept))
               => /\ last.status = 406
                  /\ ~last.dispatched
                  /\ sessions = last.before
                  /\ last.hdr = Absent
                  /\ last.invoked = <<>>
                  /\ ~last.bodyRan
        /\ (last.ret.kind # "none" /\ AcceptsJson(last.req.accept))
               => /\ last.status = 200
                  /\ last.format = "json"
                  /\ last.body = last.ret
                  /\ last.stream = <<>>
        /\ (/\ last.ret.kind # "none"
            /\ ~AcceptsJson(last.req.accept)
            /\ AcceptsSse(last.req.accept))
               => /\ last.status = 200
                  /\ last.format = "sse"
                  /\ last.stream # <<>>

C27_Witness ==
    /\ last.op = "post"
    /\ last.req.accept = "both"
    /\ last.ret.kind = "result"
    /\ last.format = "json"

\* C28: a POST /mcp whose Accept header is acceptable and whose body is
\* empty or is not JSON is answered 400 with the parse-error envelope as
\* a JSON body; the dispatcher is not called and the Session Registry
\* stays as it was.
C28_BadBodyIsParseError ==
    (/\ last.op = "post"
     /\ AcceptsJson(last.req.accept) \/ AcceptsSse(last.req.accept)
     /\ last.req.body \in {"empty", "invalid"})
    =>
        /\ last.status = 400
        /\ last.format = "json"
        /\ last.body.kind = "error"
        /\ last.body.code = -32700
        /\ ~last.dispatched
        /\ last.ret = NoEnvelope
        /\ sessions = last.before
        /\ last.invoked = <<>>

C28_Witness ==
    /\ last.op = "post"
    /\ last.req.accept = "text/event-stream"
    /\ last.req.body = "empty"
    /\ last.status = 400

\* C29: no exception leaves the POST /mcp handler, every call ends with
\* one of the statuses 200, 202, 400, 406 and 500, and a body that is JSON
\* but not an object, whose fault comes before any response envelope is
\* built, is answered 500 with the internal-error envelope.
C29_NoExceptionLeavesHandler ==
    last.op = "post" =>
        /\ ~last.raised
        /\ last.status \in {200, 202, 400, 406, 500}
        /\ (/\ AcceptsJson(last.req.accept) \/ AcceptsSse(last.req.accept)
            /\ last.req.body = "nonobject")
               => /\ last.status = 500
                  /\ last.body.kind = "error"
                  /\ last.body.code = -32603
                  /\ sessions = last.before

C29_Witness ==
    /\ last.op = "post"
    /\ last.req.body = "nonobject"
    /\ last.status = 500
    /\ last.escaped

\* C30: a response that goes out as an event stream is two events and no
\* more: one `message` event whose data is the JSON text of the response
\* envelope, then one `done` event.
C30_StreamIsMessageThenDone ==
    (last.op = "post" /\ last.format = "sse") =>
        /\ Len(last.stream) = 2
        /\ last.stream[1].event = "message"
        /\ last.stream[1].data = JsonText(last.ret)
        /\ last.stream[2].event = "done"

C30_Witness ==
    /\ last.op = "post"
    /\ last.format = "sse"
    /\ last.req.method = "tools/list"
    /\ last.ret.kind = "result"

\* C35 as stated: an initialize request whose params carry no
\* protocolVersion gets no session allocated; the registry is as it was
\* before the request.
C35_InitializeValidatesRequiredFields ==
    (/\ last.op = "post"
     /\ last.dispatched
     /\ last.req.method = "initialize"
     /\ last.req.protocolVersion = Absent)
        => (sessions = last.before /\ last.hdr = Absent)

\* the calls on the login manager that wait for a person at the terminal:
\* ensure_logged_in and login_with_password read the account, the password
\* and the CAPTCHA with input() and getpass
InteractiveCalls == {"ensure_logged_in", "login_with_password"}

\* C34: no POST /mcp, whatever its method, enters the login steps or waits
\* for input: the calls a handler makes on the login manager are at most
\* the lookup of the instance and the liveness check.
C34_RequestPathNeverPrompts ==
    last.op = "post" =>
        \A i \in DOMAIN last.manager :
            /\ last.manager[i] \notin InteractiveCalls
            /\ last.manager[i] \in {"get_instance", "is_logged_in"}

C34_Witness ==
    /\ last.op = "post"
    /\ last.req.method = "tools/call"
    /\ last.req.name \in DOMAIN tools
    /\ tools[last.req.name].require_login
    /\ ~last.loggedIn
    /\ last.manager # <<>>

----------------------------------------------------------------------------
(* The session manager's operations *)

\* the Set-Cookie headers of one exchange with the remote side
ServerCookies ==
    {EmptyMap,
     [n \in {"JSESSIONID"} |-> "v2"],
     [n \in {"JSESSIONID"} |-> None],
     [n \in CookieNames |-> "v2"]}

WriteOutcomes == {"ok", "open_fails", "dump_fails"}

\* one call of login_with_password; only an accepted attempt gets as far as
\* writing the file, so the write's outcome is drawn for that one alone
LoginWithPassword(outcome, sc, write) ==
    /\ outcome # "accepted" => write = "ok"
    /\ \E j \in {SetCookies(jar, sc)} : \E snap \in Snapshots(j) :
       \E r \in {login_with_password(cookies, j, file, outcome, snap,
                                     write)} :
          /\ jar' = j
          /\ cookies' = r.cookies
          /\ file' = r.file
          /\ last' = [op |-> "login", outcome |-> outcome, write |-> write,
                      ret |-> r.ret, raised |-> r.raised,
                      cookiesBefore |-> cookies, fileBefore |-> file]
          /\ UNCHANGED <<tools, sessions, issued, remote, monVars, procVars>>

\* what the call before this one was, and what it returned
PrevCall ==
    [op |-> last.op,
     ret |-> IF last.op \in {"login", "logout", "is_logged_in"}
             THEN last.ret ELSE FALSE]

LogoutSteps == {"ok", "get_raises", "unlink_raises"}

Logout(step) ==
    \E r \in {logout(cookies, jar, file, step)} :
       /\ cookies' = r.cookies
       /\ jar' = r.jar
       /\ file' = r.file
       /\ last' = [op |-> "logout", step |-> step, ret |-> r.ret,
                   cookiesBefore |-> cookies, jarBefore |-> jar,
                   fileBefore |-> file, prev |-> PrevCall]
       /\ UNCHANGED <<tools, sessions, issued, remote, monVars, procVars>>

\* one call of is_logged_in, `answer` being what the account endpoint
\* answers to the GET of this call; the answer may set cookies
IsLoggedIn(answer, sc) ==
    \E r \in {is_logged_in(cookies, answer)} :
       /\ jar' = IF r.gets /\ answer # "network_error"
                 THEN SetCookies(jar, sc) ELSE jar
       /\ last' = [op |-> "is_logged_in", answer |-> answer, ret |-> r.ret,
                   gets |-> r.gets, raised |-> r.raised,
                   cookiesBefore |-> cookies, fileBefore |-> file,
                   prev |-> PrevCall]
       /\ UNCHANGED <<tools, sessions, issued, cookies, file, remote,
                       monVars, procVars>>

\* the process starts again: JAccountLogin.__init__ on the same file
Construct ==
    /\ cookies' = _load_cookies(file).cookies
    /\ jar' = _load_cookies(file).jar
    /\ last' = [op |-> "construct", fileBefore |-> file]
    /\ UNCHANGED <<tools, sessions, issued, file, remote, monVars, procVars>>

InitLogin ==
    /\ tools = _scan_and_register_tools(ToolModules)
    /\ sessions = [s \in {} |-> [protocol_version |-> "2024-11-05"]]
    /\ issued = {}
    /\ file \in {NoFile, PartialFile,
                 JsonFile([n \in {"JAAuthCookie"} |-> "v1"])}
    /\ cookies = _load_cookies(file).cookies
    /\ jar = _load_cookies(file).jar
    /\ remote = "200_success"
    /\ monitor = IdleMonitor
    /\ threads = NoThreads
    /\ watch = NoWatch
    /\ conns = NoConns
    /\ instance = NoInstance
    /\ harness = NoHarness
    /\ pc = NoCallers
    /\ last = NoOp

NextLogin ==
    \/ \E outcome \in LoginOutcomes, sc \in ServerCookies,
          write \in WriteOutcomes : LoginWithPassword(outcome, sc, write)
    \/ \E step \in LogoutSteps : Logout(step)
    \/ \E answer \in RemoteAnswers :
          \E sc \in {EmptyMap, [n \in {"JSESSIONID"} |-> "v2"]} :
             IsLoggedIn(answer, sc)
    \/ Construct

SpecLogin == InitLogin /\ [][NextLogin]_vars

----------------------------------------------------------------------------
(* Properties of login_with_password, checked under SpecLogin *)

\* C9 as stated: whenever login_with_password returns True, self.cookies is
\* the name-to-value map of the cookies in the jar and the file holds that
\* same map.
C9_SuccessSnapshotsAndPersists ==
    (last.op = "login" /\ last.ret) =>
        /\ ~cookies.isNone
        /\ cookies.map \in Snapshots(jar)
        /\ file = JsonFile(cookies.map)

\* C32 as stated, checked under SpecLogin: after a call that saves the
\* cookie record, also one whose write failed or was cut short, the file
\* holds the complete cookie set it held before or the complete new one.
C32_SaveIsAtomic ==
    last.op = "login" =>
        \/ file = last.fileBefore
        \/ /\ ~cookies.isNone
           /\ file = JsonFile(cookies.map)

\* C10: a login attempt whose final URL is still the login page returns
\* False and leaves self.cookies and the file as they were.
C10_RejectedLoginKeepsCookies ==
    (last.op = "login" /\ last.outcome = "rejected") =>
        /\ last.ret = FALSE
        /\ cookies = last.cookiesBefore
        /\ file = last.fileBefore

C10_Witness ==
    /\ last.op = "login" /\ last.outcome = "rejected"
    /\ last.ret = FALSE
    /\ Truthy(cookies)
    /\ file.kind = "json"
    /\ JarNames(jar) # DOMAIN cookies.map

----------------------------------------------------------------------------
(* Properties of logout, checked under SpecLogin *)

\* C11 as stated: a logout whose remote GET fails (network error or
\* timeout) still clears self.cookies and the jar, leaves no credential
\* file, and returns True.
C11_LogoutIgnoresRemoteFailure ==
    (last.op = "logout" /\ last.step = "get_raises") =>
        /\ last.ret = TRUE
        /\ cookies = NoCookies
        /\ jar = EmptyJar
        /\ file = NoFile

\* C12 as stated: logout called twice in a row returns True both times;
\* after the first call the jar is empty and the file is absent, and the
\* second call leaves that state as it is.
C12_LogoutIdempotent ==
    (last.op = "logout" /\ last.prev.op = "logout") =>
        /\ last.prev.ret = TRUE
        /\ last.ret = TRUE
        /\ last.jarBefore = EmptyJar
        /\ last.fileBefore = NoFile
        /\ jar = last.jarBefore
        /\ file = last.fileBefore
        /\ cookies = last.cookiesBefore

----------------------------------------------------------------------------
(* Properties of the credential store, checked under SpecLogin *)

\* the jar that holds exactly the members of the dict m
JarOf(m) == [k \in {<<"", n>> : n \in DOMAIN m} |-> m[k[2]]]

\* C13 as stated: a JAccountLogin constructed on a file that _save_cookies
\* wrote with a non-empty cookie set has that set, name for name and value
\* for value, in self.cookies and in its jar.
C13_StoreRoundTrip ==
    (last.op = "construct" /\ file.kind = "json" /\ DOMAIN file.map # {}) =>
        /\ cookies = CookieDict(file.map)
        /\ jar = JarOf(file.map)

----------------------------------------------------------------------------
(* Properties of is_logged_in, checked under SpecLogin *)

\* C14: is_logged_in on a manager whose self.cookies is None or empty
\* returns False and sends no GET; a manager constructed without a
\* credential file and a manager after a logout that returned True are in
\* that case.
C14_NoCookiesNoRequest ==
    /\ (last.op = "is_logged_in" /\ ~Truthy(last.cookiesBefore)) =>
           (last.ret = FALSE /\ last.gets = FALSE)
    /\ (last.op = "construct" /\ file = NoFile) => ~Truthy(cookies)
    /\ (last.op = "logout" /\ last.ret) => ~Truthy(cookies)
    /\ (last.op = "is_logged_in" /\ last.prev.op = "logout" /\ last.prev.ret)
           => (last.ret = FALSE /\ last.gets = FALSE)
    /\ (last.op = "is_logged_in" /\ last.prev.op = "construct"
           /\ file = NoFile) => (last.ret = FALSE /\ last.gets = FALSE)

C14_Witness ==
    /\ last.op = "is_logged_in"
    /\ last.prev.op = "logout" /\ last.prev.ret
    /\ last.answer = "200_success"
    /\ last.ret = FALSE /\ last.gets = FALSE

\* C15: is_logged_in returns True exactly when self.cookies is non-empty
\* and the GET is answered 200 with a JSON object that has errno = 0 and
\* error = "success"; it never raises, and it leaves self.cookies and the
\* credential file as they were.
C15_LoggedInIffSuccessAnswer ==
    (last.op = "is_logged_in") =>
        /\ last.ret = (Truthy(last.cookiesBefore)
                         /\ last.answer = "200_success")
        /\ last.raised = FALSE
        /\ cookies = last.cookiesBefore
        /\ file = last.fileBefore

C15_Witness ==
    /\ last.op = "is_logged_in"
    /\ Truthy(last.cookiesBefore)
    /\ last.answer = "200_json_not_object"
    /\ last.gets = TRUE
    /\ last.ret = FALSE

----------------------------------------------------------------------------
(* Exceptions of login_with_password, checked under SpecLogin *)

\* C20 as stated: no exception leaves login_with_password; an attempt that
\* fails at any step returns False and leaves self.cookies and the file as
\* they were, and True is returned only when the final URL is not the
\* login page.
C20_LoginNeverRaises ==
    (last.op = "login") =>
        /\ last.raised = FALSE
        /\ (last.outcome # "accepted" =>
               /\ last.ret = FALSE
               /\ cookies = last.cookiesBefore
               /\ file = last.fileBefore)
        /\ (last.ret = TRUE => last.outcome = "accepted")

----------------------------------------------------------------------------
(* The session monitor: start_session_monitor, stop_session_monitor and    *)
(* _session_monitor_task, one statement of a caller per step               *)

Callers == DOMAIN pc

\* where the thread c stands; a thread that never calls stands nowhere
At(c) == IF c \in Callers THEN pc[c].at ELSE "idle"

\* what the monitor-facing call before this one was
PrevMonitorCall ==
    IF last.op \in {"start", "stop"}
    THEN [op |-> last.op, started |-> last.started]
    ELSE [op |-> "none", started |-> NoThread]

\* the threads that are between the test of start_session_monitor and the
\* Thread(...) they are about to make
AboutToMakeThread ==
    {c \in Callers : pc[c].at \in {"start_439", "start_440", "start_441"}}

\* start_session_monitor, line 435: return if a monitor thread is alive
StartCall(c, cb) ==
    /\ pc[c].at = "idle"
    /\ Cardinality({t \in ThreadIds : threads[t].state = "unborn"})
          > Cardinality(AboutToMakeThread)
    /\ IF monitor_running(monitor, threads)
       THEN /\ last' = [op |-> "start", caller |-> c, noop |-> TRUE,
                        started |-> NoThread, raised |-> FALSE,
                        callbackBefore |-> monitor.callback,
                        prev |-> PrevMonitorCall]
            /\ UNCHANGED pc
       ELSE /\ pc' = [pc EXCEPT ![c] = [at |-> "start_439", cb |-> cb]]
            /\ UNCHANGED last
    /\ UNCHANGED <<srvVars, mgrVars, monitor, threads, watch, procVars>>

\* line 439: self._login_callback = login_callback
Start439(c) ==
    /\ pc[c].at = "start_439"
    /\ monitor' = [monitor EXCEPT !.callback = pc[c].cb]
    /\ pc' = [pc EXCEPT ![c].at = "start_440"]
    /\ UNCHANGED <<srvVars, mgrVars, threads, watch, last, procVars>>

\* line 440: self._session_monitor_stop = False
Start440(c) ==
    /\ pc[c].at = "start_440"
    /\ monitor' = [monitor EXCEPT !.stop = FALSE]
    /\ pc' = [pc EXCEPT ![c].at = "start_441"]
    /\ UNCHANGED <<srvVars, mgrVars, threads, watch, last, procVars>>

\* lines 441-444: self._session_monitor_thread = threading.Thread(...)
Start441(c) ==
    /\ pc[c].at = "start_441"
    /\ \E t \in ThreadIds :
          /\ threads[t].state = "unborn"
          /\ \A u \in ThreadIds : threads[u].state = "unborn" => t <= u
          /\ threads' = [threads EXCEPT ![t].state = "created"]
          /\ monitor' = [monitor EXCEPT !.thread = t]
    /\ pc' = [pc EXCEPT ![c].at = "start_445"]
    /\ UNCHANGED <<srvVars, mgrVars, watch, last, procVars>>

\* line 445: self._session_monitor_thread.start(), on whatever thread the
\* field holds now; Thread.start() raises RuntimeError for a thread that
\* was started before
Start445(c) ==
    /\ pc[c].at = "start_445"
    /\ \E t \in {monitor.thread} :
          IF threads[t].state = "created"
          THEN /\ threads' = [threads EXCEPT ![t].state = "alive"]
               /\ last' = [op |-> "start", caller |-> c, noop |-> FALSE,
                           started |-> t, raised |-> FALSE,
                           callbackBefore |-> monitor.callback,
                           prev |-> PrevMonitorCall]
          ELSE /\ UNCHANGED threads
               /\ last' = [op |-> "start", caller |-> c, noop |-> FALSE,
                           started |-> NoThread, raised |-> TRUE,
                           callbackBefore |-> monitor.callback,
                           prev |-> PrevMonitorCall]
    /\ pc' = [pc EXCEPT ![c] = Idle]
    /\ UNCHANGED <<srvVars, mgrVars, monitor, watch, procVars>>

\* stop_session_monitor, line 450: nothing to do unless a monitor thread
\* is alive
StopCall(c) ==
    /\ pc[c].at = "idle"
    /\ IF monitor_running(monitor, threads)
       THEN /\ pc' = [pc EXCEPT ![c].at = "stop_451"]
            /\ UNCHANGED last
       ELSE /\ last' = [op |-> "stop", caller |-> c, signalled |-> FALSE,
                        started |-> NoThread, joined |-> FALSE,
                        raised |-> FALSE]
            /\ UNCHANGED pc
    /\ UNCHANGED <<srvVars, mgrVars, monitor, threads, watch, procVars>>

\* line 451: self._session_monitor_stop = True
Stop451(c) ==
    /\ pc[c].at = "stop_451"
    /\ monitor' = [monitor EXCEPT !.stop = TRUE]
    /\ threads' = [t \in ThreadIds |->
                     IF is_alive(threads, t)
                     THEN [threads[t] EXCEPT !.told = TRUE] ELSE threads[t]]
    /\ pc' = [pc EXCEPT ![c].at = "stop_452"]
    /\ UNCHANGED <<srvVars, mgrVars, watch, last, procVars>>

\* line 452: self._session_monitor_thread.join(timeout=2), on whatever
\* thread the field holds now: it returns when that thread has returned or
\* when the two seconds are over, and raises RuntimeError for a thread
\* that was not started
Stop452(c) ==
    /\ pc[c].at = "stop_452"
    /\ \E t \in {monitor.thread} :
          last' = [op |-> "stop", caller |-> c, signalled |-> TRUE,
                   started |-> NoThread,
                   joined |-> threads[t].state = "exited",
                   raised |-> threads[t].state = "created"]
    /\ pc' = [pc EXCEPT ![c] = Idle]
    /\ UNCHANGED <<srvVars, mgrVars, monitor, threads, watch, procVars>>

\* how the login callback and the keep-alive GET of a check can end
CallbackEnds == {"returns", "raises"}
KeepAliveEnds == {"ok", "raises"}

\* lines 466-484 without the try around the callback
_session_monitor_check_no_try(c, callback, answer, cb, ka) ==
    IF ~is_logged_in(c, answer).ret
    THEN IF callback # None
         THEN [outcome |-> IF cb = "raises" THEN "callback_raised"
                           ELSE "callback_returned",
               survives |-> cb # "raises"]
         ELSE [outcome |-> "no_callback", survives |-> TRUE]
    ELSE [outcome |-> IF ka = "raises" THEN "keepalive_failed"
                      ELSE "keepalive_ok",
          survives |-> TRUE]

\* _session_monitor_task, lines 466-484: is_logged_in(), then the callback
\* when the session is gone and a callback is registered, or the
\* keep-alive GET when the session is live; `except Exception` takes what
\* the callback or the GET raises.  `survives` tells whether the thread is
\* still inside its loop afterwards.
_session_monitor_check(c, callback, answer, cb, ka) ==
    IF ~is_logged_in(c, answer).ret
    THEN IF callback # None
         THEN [outcome |-> IF cb = "raises" THEN "callback_raised"
                           ELSE "callback_returned",
               survives |-> TRUE]
         ELSE [outcome |-> "no_callback", survives |-> TRUE]
    ELSE [outcome |-> IF ka = "raises" THEN "keepalive_failed"
                      ELSE "keepalive_ok",
          survives |-> TRUE]

\* _session_monitor_task, lines 459-462 and 487: the thread returns when
\* the stop signal is set; otherwise it compares the time with
\* _last_check_time and goes on to the check when COOKIE_CHECK_INTERVAL has
\* passed, or sleeps 10 seconds and comes back here when it has not
MonitorWake(t) ==
    /\ is_alive(threads, t)
    /\ threads[t].at = "459"
    /\ IF monitor.stop
       THEN threads' = [threads EXCEPT ![t].state = "exited"]
       ELSE IF monitor.age >= COOKIE_CHECK_INTERVAL
       THEN threads' = [threads EXCEPT ![t].at = "463"]
       ELSE UNCHANGED threads
    /\ UNCHANGED <<srvVars, mgrVars, monitor, pc, watch, last, procVars>>

\* _session_monitor_task, lines 463-487: the thread writes
\* _last_check_time, runs the check and sleeps 10 seconds
MonitorCheck(t, answer, cb, ka) ==
    /\ is_alive(threads, t)
    /\ threads[t].at = "463"
    /\ \E r \in {_session_monitor_check(cookies, monitor.callback, answer,
                                         cb, ka)} :
          /\ (r.outcome \in {"callback_raised", "callback_returned"}
                 \/ cb = "returns")
          /\ (r.outcome \in {"keepalive_failed", "keepalive_ok"}
                 \/ ka = "ok")
          /\ threads' = [threads EXCEPT
                            ![t].at = "459",
                            ![t].state = IF r.survives THEN "alive"
                                         ELSE "exited"]
          /\ watch' = [elapsed |-> 0, outcome |-> r.outcome]
    /\ monitor' = [monitor EXCEPT !.age = 0]
    /\ UNCHANGED <<srvVars, mgrVars, pc, last, procVars>>

\* a step of the monitor thread t
MonitorStep(t) ==
    \/ MonitorWake(t)
    \/ \E answer \in RemoteAnswers, cb \in CallbackEnds, ka \in KeepAliveEnds :
          MonitorCheck(t, answer, cb, ka)

\* 100 seconds pass
TimePasses ==
    /\ monitor.age < COOKIE_CHECK_INTERVAL
          \/ watch.elapsed < COOKIE_CHECK_INTERVAL
    /\ monitor' = [monitor EXCEPT !.age = Later(monitor.age)]
    /\ watch' = [watch EXCEPT !.elapsed = Later(watch.elapsed)]
    /\ UNCHANGED <<srvVars, mgrVars, threads, pc, last, procVars>>

\* a step of a caller that is inside start_session_monitor or
\* stop_session_monitor
CallerStep(c) ==
    \/ Start439(c)
    \/ Start440(c)
    \/ Start441(c)
    \/ Start445(c)
    \/ Stop451(c)
    \/ Stop452(c)

InitMonitorWith(callers) ==
    /\ tools = _scan_and_register_tools(ToolModules)
    /\ sessions = [s \in {} |-> [protocol_version |-> "2024-11-05"]]
    /\ issued = {}
    /\ file = JsonFile([n \in {"JAAuthCookie"} |-> "v1"])
    /\ cookies = _load_cookies(file).cookies
    /\ jar = _load_cookies(file).jar
    /\ remote = "200_success"
    /\ monitor = IdleMonitor
    /\ threads = NoThreads
    /\ watch = NoWatch
    /\ conns = NoConns
    /\ instance = NoInstance
    /\ harness = NoHarness
    /\ pc = [c \in callers |-> Idle]
    /\ last = NoOp

NextMonitor ==
    \/ \E c \in Callers, cb \in Callbacks : StartCall(c, cb)
    \/ \E c \in Callers : StopCall(c)
    \/ \E c \in Callers : CallerStep(c)
    \/ \E t \in ThreadIds : MonitorStep(t)
    \/ TimePasses

\* every thread that can take a step takes one in the end: a caller inside
\* a call goes on to its next statement, a monitor thread wakes from its
\* sleep; and time goes on
FairMonitor ==
    /\ \A c \in {"main", "worker"} : WF_vars(c \in Callers /\ CallerStep(c))
    /\ \A t \in ThreadIds : WF_vars(MonitorStep(t))
    /\ WF_vars(TimePasses)

\* one controlling thread calls start and stop, one call after the other
InitMonitorSeq == InitMonitorWith({"main"})
SpecMonitorSeq == InitMonitorSeq /\ [][NextMonitor]_vars /\ FairMonitor

\* two threads call start and stop as they like
InitMonitor == InitMonitorWith({"main", "worker"})
SpecMonitor == InitMonitor /\ [][NextMonitor]_vars /\ FairMonitor

----------------------------------------------------------------------------
(* Properties of the session monitor *)

\* C16 as stated, checked under SpecMonitorSeq: of two calls of
\* start_session_monitor with no stop_session_monitor between them, the
\* second starts no thread and leaves the registered callback alone, and
\* exactly one monitor thread is running afterwards.
C16_SecondStartIsNoOp ==
    (last.op = "start" /\ last.prev.op = "start" /\ At("main") = "idle") =>
        /\ last.noop = TRUE
        /\ last.started = NoThread
        /\ monitor.callback = last.callbackBefore
        /\ Cardinality(AliveThreads(threads)) = 1

\* C17 as stated, checked under SpecMonitor: whatever way the calls of
\* start_session_monitor and stop_session_monitor of two threads
\* interleave, at most one monitor thread is running.
C17_AtMostOneMonitor ==
    Cardinality(AliveThreads(threads)) <= 1

\* C18 as stated, checked under SpecMonitor: a monitor thread that was
\* alive when stop_session_monitor set the stop signal returns from its
\* loop in the end, and the call of stop_session_monitor comes back from
\* its join.
C18_StopSignalEndsLoop ==
    /\ \A t \in ThreadIds :
          (threads[t].told) ~> (threads[t].state = "exited")
    /\ \A c \in {"main", "worker"} :
          (At(c) = "stop_452") ~> (At(c) = "idle")

\* C21 as stated, checked under SpecMonitor: a monitor thread leaves its
\* loop only at a step taken while the stop signal is set; no callback that
\* raised, no keep-alive GET that failed and no liveness check that failed
\* ends it.
C21_OnlyStopEndsLoop ==
    [][\A t \in ThreadIds :
          (is_alive(threads, t) /\ threads'[t].state = "exited")
              => monitor.stop]_vars

\* a check whose callback raised, or whose keep-alive GET failed, lies
\* behind a monitor thread that is still in its loop
C21_Witness ==
    /\ watch.outcome \in {"callback_raised", "keepalive_failed"}
    /\ ~monitor.stop
    /\ AliveThreads(threads) # {}

\* C22 as stated, checked under SpecMonitor: a monitor thread runs its
\* liveness check only when at least COOKIE_CHECK_INTERVAL has passed since
\* the liveness check a monitor thread ran before, also when threads were
\* stopped and started in between.
C22_ChecksAreAnIntervalApart ==
    [][\A t \in ThreadIds :
          (threads[t].at = "463" /\ threads'[t].at = "459")
              => watch.elapsed >= COOKIE_CHECK_INTERVAL]_vars

\* C36 as stated, checked under SpecMonitorSeq: once a call of
\* start_session_monitor that came next after a stop_session_monitor has
\* returned, a monitor thread is running with the stop signal cleared, and
\* stays so until the next stop.
C36_StartAfterStopLeavesMonitor ==
    (last.op = "start" /\ last.prev.op = "stop" /\ At("main") = "idle") =>
        /\ monitor_running(monitor, threads)
        /\ ~monitor.stop

----------------------------------------------------------------------------
(* ensure_logged_in and login_with_password called by several threads,     *)
(* one login step of a thread per action                                   *)

\* the statements of login_with_password a thread can stand at: the
\* bootstrap fetch (284), the CAPTCHA fetch (293), the prompt (325), the
\* form post (336) and the cookie snapshot (350)
LoginSteps ==
    {"login_284", "login_293", "login_325", "login_336", "login_350"}

\* the call of the thread c is over
Returns(c, op, ret, raised) ==
    /\ pc' = [pc EXCEPT ![c] = Idle]
    /\ last' = [op |-> op, caller |-> c, ret |-> ret, raised |-> raised]

\* ensure_logged_in, lines 503-521: True at once when is_logged_in says so,
\* otherwise on into login_with_password
EnsureLoggedIn(c, answer) ==
    /\ At(c) = "idle"
    /\ remote' = answer
    /\ IF is_logged_in(cookies, answer).ret
       THEN Returns(c, "ensure_logged_in", TRUE, FALSE)
       ELSE /\ pc' = [pc EXCEPT ![c].at = "login_284"]
            /\ UNCHANGED last
    /\ UNCHANGED <<srvVars, cookies, jar, file, monitor, threads, watch, procVars>>

\* login_with_password called directly
LoginCall(c) ==
    /\ At(c) = "idle"
    /\ pc' = [pc EXCEPT ![c].at = "login_284"]
    /\ UNCHANGED <<srvVars, mgrVars, monitor, threads, watch, last, procVars>>

\* the timeout argument of each outbound call of the manager, in seconds,
\* NoTimeout where the call passes none: the bootstrap fetch (158-162), the
\* CAPTCHA fetch (293-298), the form post (336-342), the liveness check
\* (242-246), the keep-alive refresh (478-481) and the remote logout (372)
NoTimeout == 0
OutboundTimeouts ==
    [bootstrap |-> NoTimeout, captcha |-> 10, submit |-> 10,
     liveness |-> 10, keepalive |-> 10, logout |-> 10]

\* one call of requests on a network that answers, fails or stays silent:
\* a silent peer ends a call with a timeout in requests.Timeout and holds a
\* call without one for good
Networks == {"answers", "fails", "silent"}
http_call(timeout, network) ==
    CASE network = "answers" -> "ok"
      [] network = "fails" -> "raises"
      [] network = "silent" ->
            IF timeout = NoTimeout THEN "blocks" ELSE "raises"

\* _parse_params, lines 139-146: the dict of the key=value pairs of the
\* query string, a later pair taking the place of an earlier one
RECURSIVE _parse_params(_)
_parse_params(query) ==
    IF query = <<>> THEN EmptyMap
    ELSE LET rest == _parse_params(Tail(query))
             key == Head(query)[1]
         IN [k \in {key} \cup DOMAIN rest |->
                IF k \in DOMAIN rest THEN rest[k] ELSE Head(query)[2]]

\* str.strip(ch) and "".join on a text held as its pieces
RECURSIVE Strip(_, _)
Strip(text, ch) ==
    IF text = <<>> THEN text
    ELSE IF Head(text) = ch THEN Strip(Tail(text), ch)
    ELSE IF text[Len(text)] = ch THEN Strip(SubSeq(text, 1, Len(text) - 1), ch)
    ELSE text

RECURSIVE Join(_)
Join(text) == IF text = <<>> THEN "" ELSE Head(text) \o Join(Tail(text))

\* lines 199-203: the first line of a script that holds `var uuid` and `=`;
\* what stands after the `=` is stripped of `"`, then of `'`, then of `;`
RECURSIVE script_line(_, _)
script_line(script, uuid) ==
    IF script = <<>> THEN uuid
    ELSE IF Head(script).matches
    THEN Join(Strip(Strip(Strip(Head(script).rhs, "\""), "'"), ";"))
    ELSE script_line(Tail(script), uuid)

\* lines 197-203: every script in turn; the `break` leaves the loop over
\* the lines only, so a later script writes over what an earlier one gave
RECURSIVE script_uuid(_, _)
script_uuid(scripts, uuid) ==
    IF scripts = <<>> THEN uuid
    ELSE script_uuid(Tail(scripts), script_line(Head(scripts), uuid))

\* `not uuid`
Falsy(uuid) == uuid = None \/ uuid = ""

FixedLoginUrl == "https://jaccount.sjtu.edu.cn/jaccount/jalogin"

\* the pages the bootstrap fetch can end on: the query of the final URL,
\* the href of the anchor firefox_link cut at its `=` signs (no piece: no
\* such anchor), the value of the input named uuid, the scripts as their
\* lines, and the matches of the UUID pattern in the text
Pages ==
    LET NoMatch == [matches |-> FALSE, rhs |-> <<>>]
        Scripts ==
            {<<NoMatch>>,
             <<NoMatch,
               [matches |-> TRUE, rhs |-> <<"\"", "u4", "\"", ";">>],
               [matches |-> TRUE, rhs |-> <<"u9">>]>>,
             <<[matches |-> TRUE, rhs |-> <<";">>]>>,
             <<[matches |-> TRUE, rhs |-> <<"'", "u8", "'">>]>>}
    IN [url : {"https://jaccount.sjtu.edu.cn/jaccount/jalogin?..."},
        query : {<<>>, <<<<"sid", "s">>, <<"uuid", "">>>>,
                 <<<<"uuid", "u0">>, <<"sid", "s">>, <<"uuid", "u3">>>>},
        anchor : {<<>>, <<"jaccount">>, <<"?uuid", "">>, <<"?uuid", "u1">>},
        input : {Absent, "", "u2"},
        scripts : {<<>>} \cup {<<a>> : a \in Scripts}
                      \cup (Scripts \X Scripts),
        matches : {<<>>, <<"u5", "u6">>}]

\* the login page as the service sends it
LoginPage ==
    [url |-> "https://jaccount.sjtu.edu.cn/jaccount/jalogin?...",
     query |-> <<<<"sid", "s">>, <<"uuid", "">>>>,
     anchor |-> <<"?uuid", "u1">>, input |-> Absent, scripts |-> <<>>,
     matches |-> <<"u5", "u6">>]

\* _get_login_params that reads the query string before the input field
_get_login_params_query_first(page) ==
    LET login_params == _parse_params(page.query)
        u1 == IF Len(page.anchor) >= 2 THEN page.anchor[2] ELSE None
        u2 == IF Falsy(u1) /\ "uuid" \in DOMAIN login_params
              THEN login_params["uuid"] ELSE u1
        u3 == IF Falsy(u2) /\ page.input # Absent THEN page.input ELSE u2
        u4 == IF Falsy(u3) THEN script_uuid(page.scripts, u3) ELSE u3
        u5 == IF Falsy(u4) /\ page.matches # <<>>
              THEN page.matches[1] ELSE u4
    IN IF Falsy(u5)
       THEN [login_params |-> EmptyMap, uuid |-> "",
             login_url |-> FixedLoginUrl]
       ELSE [login_params |-> login_params, uuid |-> u5,
             login_url |-> page.url]

\* _get_login_params, lines 165-222, on the page the fetch ended on: the
\* five ways to the uuid, each tried while `not uuid`, and the fixed URL
\* with no parameters and the empty uuid when none gave one
_get_login_params(page) ==
    LET login_params == _parse_params(page.query)
        u1 == IF Len(page.anchor) >= 2 THEN page.anchor[2] ELSE None
        u2 == IF Falsy(u1) /\ page.input # Absent THEN page.input ELSE u1
        u3 == IF Falsy(u2) /\ "uuid" \in DOMAIN login_params
              THEN login_params["uuid"] ELSE u2
        u4 == IF Falsy(u3) THEN script_uuid(page.scripts, u3) ELSE u3
        u5 == IF Falsy(u4) /\ page.matches # <<>>
              THEN page.matches[1] ELSE u4
    IN IF Falsy(u5)
       THEN [login_params |-> EmptyMap, uuid |-> "",
             login_url |-> FixedLoginUrl]
       ELSE [login_params |-> login_params, uuid |-> u5,
             login_url |-> page.url]

\* line 284: _get_login_params, the bootstrap fetch of lines 158-162 and
\* the reading of the page it ended on, one of `pages`
BootstrapFetch(c, network, pages) ==
    /\ At(c) = "login_284"
    /\ \E res \in {http_call(OutboundTimeouts.bootstrap, network)} :
          CASE res = "ok" ->
                  /\ pc' = [pc EXCEPT ![c].at = "login_293"]
                  /\ \E page \in pages :
                        last' = [op |-> "params", caller |-> c,
                                 page |-> page,
                                 ret |-> _get_login_params(page)]
            [] res = "raises" -> Returns(c, "login", FALSE, FALSE)
            [] res = "blocks" ->
                  pc' = [pc EXCEPT ![c].at = "blocked_158"] /\ UNCHANGED last
    /\ UNCHANGED <<srvVars, mgrVars, monitor, threads, watch, procVars>>

\* lines 293-323: the CAPTCHA is fetched and written to the cache
CaptchaFetch(c, network) ==
    /\ At(c) = "login_293"
    /\ IF http_call(OutboundTimeouts.captcha, network) = "ok"
       THEN pc' = [pc EXCEPT ![c].at = "login_325"] /\ UNCHANGED last
       ELSE Returns(c, "login", FALSE, FALSE)
    /\ UNCHANGED <<srvVars, mgrVars, monitor, threads, watch, procVars>>

\* line 325: input() comes back with the typed text, or raises EOFError,
\* or raises KeyboardInterrupt
CaptchaInput(c, how) ==
    /\ At(c) = "login_325"
    /\ IF how = "typed"
       THEN pc' = [pc EXCEPT ![c].at = "login_336"] /\ UNCHANGED last
       ELSE Returns(c, "login", FALSE, how = "interrupt")
    /\ UNCHANGED <<srvVars, mgrVars, monitor, threads, watch, procVars>>

\* lines 336-347: the form post and the test of the final URL
FormSubmit(c, outcome) ==
    /\ At(c) = "login_336"
    /\ jar' = IF outcome = "post_raises" THEN jar
              ELSE SetCookies(jar, [n \in {"JAAuthCookie"} |-> "v2"])
    /\ IF outcome = "accepted"
       THEN pc' = [pc EXCEPT ![c].at = "login_350"] /\ UNCHANGED last
       ELSE Returns(c, "login", FALSE, FALSE)
    /\ UNCHANGED <<srvVars, cookies, file, remote, monitor, threads, watch, procVars>>

\* lines 350-356: the snapshot of the jar, _save_cookies, return True
SnapshotAndSave(c, write) ==
    /\ At(c) = "login_350"
    /\ \E snap \in Snapshots(jar) :
          /\ cookies' = CookieDict(snap)
          /\ file' = _save_cookies(CookieDict(snap), file, write)
    /\ Returns(c, "login", TRUE, FALSE)
    /\ UNCHANGED <<srvVars, jar, remote, monitor, threads, watch, procVars>>

\* the threads `callers` of a process whose manager found no credential
\* file
InitLoginWith(callers) ==
    /\ tools = _scan_and_register_tools(ToolModules)
    /\ sessions = [s \in {} |-> [protocol_version |-> "2024-11-05"]]
    /\ issued = {}
    /\ file = NoFile
    /\ cookies = _load_cookies(file).cookies
    /\ jar = _load_cookies(file).jar
    /\ remote = "302_login"
    /\ monitor = IdleMonitor
    /\ threads = NoThreads
    /\ watch = NoWatch
    /\ conns = NoConns
    /\ instance = NoInstance
    /\ harness = NoHarness
    /\ pc = [c \in callers |-> Idle]
    /\ last = NoOp

\* the monitor's callback and one more thread
InitLoginRace == InitLoginWith({"monitor_callback", "main"})

NextLoginRace ==
    \/ \E c \in Callers, answer \in {"200_success", "302_login"} :
          EnsureLoggedIn(c, answer)
    \/ \E c \in Callers : LoginCall(c)
    \/ \E c \in Callers, network \in Networks :
          BootstrapFetch(c, network, {LoginPage})
    \/ \E c \in Callers, network \in Networks : CaptchaFetch(c, network)
    \/ \E c \in Callers, how \in {"typed", "eof", "interrupt"} :
          CaptchaInput(c, how)
    \/ \E c \in Callers, outcome \in {"accepted", "rejected", "post_raises"} :
          FormSubmit(c, outcome)
    \/ \E c \in Callers, write \in {"ok", "open_fails"} :
          SnapshotAndSave(c, write)

SpecLoginRace == InitLoginRace /\ [][NextLoginRace]_vars

\* C19 as stated, checked under SpecLoginRace: at most one thread at a
\* time is inside the login steps (bootstrap fetch, CAPTCHA prompt, form
\* post, cookie snapshot).
C19_OneLoginAtATime ==
    Cardinality({c \in Callers : At(c) \in LoginSteps}) <= 1

\* C33 as stated, checked under SpecLoginRace: every outbound call carries
\* a bounded timeout, so no thread of a login stays held by a call on a
\* network that has gone silent.
C33_NoCallBlocksForever ==
    \A c \in Callers : At(c) # "blocked_158"

NextParams ==
    \/ \E c \in Callers : LoginCall(c)
    \/ \E c \in Callers, network \in Networks :
          BootstrapFetch(c, network, Pages)
    \/ \E c \in Callers, network \in Networks : CaptchaFetch(c, network)
    \/ \E c \in Callers, how \in {"typed", "eof", "interrupt"} :
          CaptchaInput(c, how)
    \/ \E c \in Callers, outcome \in {"accepted", "rejected", "post_raises"} :
          FormSubmit(c, outcome)
    \/ \E c \in Callers, write \in {"ok", "open_fails"} :
          SnapshotAndSave(c, write)

\* one thread logs in, on any of the pages
SpecParams == InitLoginWith({"main"}) /\ [][NextParams]_vars

\* what each of the five sources of a page gives, in the order of the
\* claim, "" where it gives nothing
SourceYields(page) ==
    LET noneIsEmpty(u) == IF u = None THEN "" ELSE u
    IN <<IF Len(page.anchor) >= 2 THEN page.anchor[2] ELSE "",
         IF page.input = Absent THEN "" ELSE page.input,
         IF "uuid" \in DOMAIN _parse_params(page.query)
         THEN _parse_params(page.query)["uuid"] ELSE "",
         noneIsEmpty(script_uuid(page.scripts, None)),
         IF page.matches = <<>> THEN "" ELSE page.matches[1]>>

\* C37, checked under SpecParams: _get_login_params returns the uuid of
\* the first of anchor, input field, query string, script variable and
\* body token that gives a non-empty one, with the URL and the parameters
\* of the page; when none gives one it returns the fixed login URL, no
\* parameters and the empty uuid, and the login goes on to the CAPTCHA and
\* the form post.
C37_FirstSourceWinsElseFallback ==
    last.op = "params" =>
        LET y == SourceYields(last.page)
        IN /\ \A k \in 1..5 :
                 (y[k] # "" /\ \A j \in 1..(k - 1) : y[j] = "") =>
                    /\ last.ret.uuid = y[k]
                    /\ last.ret.login_url = last.page.url
                    /\ last.ret.login_params = _parse_params(last.page.query)
           /\ (\A k \in 1..5 : y[k] = "") =>
                 /\ last.ret.uuid = ""
                 /\ last.ret.login_url = FixedLoginUrl
                 /\ last.ret.login_params = EmptyMap
           /\ At(last.caller) \in LoginSteps \ {"login_284"}

\* a page none of whose sources gave a uuid, and the login at its form post
C37_Witness ==
    /\ last.op = "params"
    /\ last.page.input = ""
    /\ last.page.scripts # <<>>
    /\ last.ret.uuid = ""
    /\ last.ret.login_url = FixedLoginUrl
    /\ At("main") = "login_336"

----------------------------------------------------------------------------
(* GET /mcp and the keep-alive stream, one resumption of the stream's     *)
(* generator per action                                                    *)

\* the GET connections the model opens and the pings it lets one stream
\* send
MaxConns == 2
MaxPings == 3

\* the `event: ping` / `data: {}` pair of one turn of the loop
PingEvent == [event |-> "ping", data |-> JsonText(NoEnvelope)]

\* a keep-alive stream that returns after its first sleep
_create_keepalive_sse_stream_once(state, signal) ==
    IF signal = "disconnect" THEN [state |-> "ended", emitted |-> <<>>]
    ELSE IF state = "new"
    THEN [state |-> "sleeping", emitted |-> <<PingEvent>>]
    ELSE [state |-> "ended", emitted |-> <<>>]

\* _create_keepalive_sse_stream, resumed where it stands: at its start or
\* when asyncio.sleep(30) is over it yields the ping pair and sleeps
\* again (`while True`); when the client has gone the framework closes it
\* at the point where it is suspended, and it returns
_create_keepalive_sse_stream(state, signal) ==
    IF signal = "disconnect" THEN [state |-> "ended", emitted |-> <<>>]
    ELSE [state |-> "sleeping", emitted |-> <<PingEvent>>]

\* _handle_mcp_get: 405 unless the Accept header names text/event-stream,
\* else a StreamingResponse over the keep-alive stream
_handle_mcp_get(accept) ==
    IF ~AcceptsSse(accept)
    THEN [accept |-> accept, status |-> 405, state |-> "none",
          body |-> ErrorEnvelope("server-error", -32601,
                                 "Method Not Allowed"),
          events |-> <<>>, periods |-> 0, disconnected |-> FALSE]
    ELSE [accept |-> accept, status |-> 200, state |-> "new",
          body |-> NoEnvelope,
          events |-> <<>>, periods |-> 0, disconnected |-> FALSE]

\* the connection whose stream is resumed with the signal
Resumed(conn, signal) ==
    LET g == _create_keepalive_sse_stream(conn.state, signal)
    IN [conn EXCEPT !.state = g.state,
                    !.events = conn.events \o g.emitted]

\* a client sends GET /mcp; the framework starts to iterate the stream
HandleGet(accept) ==
    /\ Len(conns) < MaxConns
    /\ \E conn \in {_handle_mcp_get(accept)} :
          conns' = Append(conns, IF conn.state = "new"
                                 THEN Resumed(conn, "next") ELSE conn)
    /\ UNCHANGED <<srvVars, mgrVars, monVars, instance, harness, last>>

\* the 30 seconds of asyncio.sleep(30) of connection i are over
SleepEnds(i) ==
    /\ conns[i].state = "sleeping"
    /\ Len(conns[i].events) < MaxPings
    /\ conns' = [conns EXCEPT
                    ![i] = Resumed([conns[i] EXCEPT
                                       !.periods = conns[i].periods + 1],
                                   "next")]
    /\ UNCHANGED <<srvVars, mgrVars, monVars, instance, harness, last>>

\* the client of connection i goes away
ClientDisconnects(i) ==
    /\ conns[i].state = "sleeping"
    /\ conns' = [conns EXCEPT
                    ![i] = Resumed([conns[i] EXCEPT !.disconnected = TRUE],
                                   "disconnect")]
    /\ UNCHANGED <<srvVars, mgrVars, monVars, instance, harness, last>>

InitGet == InitServer

NextGet ==
    \/ \E accept \in Accepts : HandleGet(accept)
    \/ \E i \in DOMAIN conns : SleepEnds(i)
    \/ \E i \in DOMAIN conns : ClientDisconnects(i)

SpecGet == InitGet /\ [][NextGet]_vars

\* C31, checked under SpecGet: GET /mcp is answered 405 without a stream
\* unless the Accept header names text/event-stream; the stream it gets
\* otherwise sends ping events with an empty payload and nothing else, one
\* at its start and one after every 30-second sleep, and it has ended only
\* if the client went away.
C31_KeepAliveStreamPingsUntilDisconnect ==
    \A i \in DOMAIN conns :
        /\ ~AcceptsSse(conns[i].accept) =>
              /\ conns[i].status = 405
              /\ conns[i].state = "none"
              /\ conns[i].events = <<>>
        /\ AcceptsSse(conns[i].accept) =>
              /\ conns[i].status = 200
              /\ \A k \in DOMAIN conns[i].events :
                    /\ conns[i].events[k].event = "ping"
                    /\ conns[i].events[k].data = JsonText(NoEnvelope)
              /\ Len(conns[i].events) = conns[i].periods + 1
              /\ conns[i].state \in {"sleeping", "ended"}
              /\ (conns[i].state = "ended" => conns[i].disconnected)

C31_Witness ==
    \E i \in DOMAIN conns :
        /\ conns[i].accept = "text/event-stream"
        /\ Len(conns[i].events) = MaxPings
        /\ conns[i].state = "sleeping"

----------------------------------------------------------------------------
(* JAccountLoginManager.get_instance, one statement of a caller per step.  *)
(* instance.held is cls._instance (0: None), instance.made counts the      *)
(* JAccountLogin objects constructed, instance.config_path is the path the *)
(* held one was made with, instance.given the objects handed to callers    *)

ConfigPaths == {None, "a.json", "b.json"}

\* line 54: `if cls._instance is None`
GetInstanceCall(c, config_path) ==
    /\ At(c) = "idle"
    /\ pc' = [pc EXCEPT ![c] =
                 [at |-> IF instance.held = 0 THEN "get_55" ELSE "get_56",
                  cb |-> None, config_path |-> config_path]]
    /\ UNCHANGED <<srvVars, mgrVars, monitor, threads, watch, conns,
                   instance, harness, last>>

\* line 55: `cls._instance = JAccountLogin(config_path)`
GetInstance55(c) ==
    /\ At(c) = "get_55"
    /\ instance' = [instance EXCEPT
                        !.made = instance.made + 1,
                        !.held = instance.made + 1,
                        !.config_path = pc[c].config_path]
    /\ pc' = [pc EXCEPT ![c].at = "get_56"]
    /\ UNCHANGED <<srvVars, mgrVars, monitor, threads, watch, conns,
                   harness, last>>

\* line 56: `return cls._instance`
GetInstance56(c) ==
    /\ At(c) = "get_56"
    /\ instance' = [instance EXCEPT !.given = @ \cup {instance.held}]
    /\ last' = [op |-> "get_instance", caller |-> c, ret |-> instance.held,
                config_path |-> pc[c].config_path,
                madeWith |-> instance.config_path]
    /\ pc' = [pc EXCEPT ![c] = Idle]
    /\ UNCHANGED <<srvVars, mgrVars, monitor, threads, watch, conns,
                   harness>>

NextInstance ==
    \/ \E c \in Callers, config_path \in ConfigPaths :
          GetInstanceCall(c, config_path)
    \/ \E c \in Callers : GetInstance55(c)
    \/ \E c \in Callers : GetInstance56(c)

\* two threads of one process call get_instance as they like
SpecInstance == InitLoginWith({"main", "worker"}) /\ [][NextInstance]_vars

\* C38 as stated, checked under SpecInstance: however the calls of
\* get_instance interleave, one JAccountLogin object is made at most and
\* every caller is handed that one.
C38_OneManagerPerProcess ==
    /\ instance.made <= 1
    /\ Cardinality(instance.given) <= 1

----------------------------------------------------------------------------
(* main() of the harness test.py on the thread "main".  harness.at is the  *)
(* line main stands at, harness.ensured what ensure_logged_in gave it,     *)
(* harness.ran whether mcp_server.run was entered and harness.how the way  *)
(* it ended.  The calls main makes on the manager are the actions of the   *)
(* manager, taken one statement at a time between the steps of main.       *)

\* lines 48-57: the server and the manager are made; with --no-login main
\* asks is_logged_in() once and goes on to the server, without it main goes
\* on to ensure_logged_in()
HarnessEnter(no_login, answer) ==
    /\ harness.at = "none"
    /\ harness' = [harness EXCEPT
                       !.at = IF no_login THEN "run_87" ELSE "login_58",
                       !.no_login = no_login]
    /\ remote' = IF no_login THEN answer ELSE remote
    /\ UNCHANGED <<srvVars, cookies, jar, file, monVars, conns, instance,
                   last>>

\* lines 58-60: ensure_logged_in() has come back; sys.exit(1) when it gave
\* False, and the exception goes on out of main when it raised
HarnessLoginEnds ==
    /\ harness.at = "login_58"
    /\ At("main") = "idle"
    /\ last.op \in {"ensure_logged_in", "login"}
    /\ harness' = [harness EXCEPT
                       !.at = IF last.ret /\ ~last.raised THEN "start_71"
                              ELSE "exited",
                       !.ensured = IF last.raised THEN "raised"
                                   ELSE IF last.ret THEN "True" ELSE "False"]
    /\ UNCHANGED <<srvVars, mgrVars, monVars, conns, instance, last>>

\* the try statement without its finally clause for what is no Exception
HarnessRun_no_finally(how) ==
    /\ \/ harness.at = "run_87"
       \/ /\ harness.at = "start_71"
          /\ At("main") = "idle"
          /\ last.op = "start"
    /\ harness' = [harness EXCEPT
                       !.at = IF harness.no_login \/ how = "SystemExit"
                              THEN "done" ELSE "finally_95",
                       !.ran = TRUE, !.how = how]
    /\ UNCHANGED <<srvVars, mgrVars, monVars, conns, instance, last>>

\* lines 82-92: start_session_monitor has come back, or was not called;
\* mcp_server.run(...) is entered and returns, or raises KeyboardInterrupt,
\* an Exception or SystemExit; the finally clause comes next in each case
HarnessRun(how) ==
    /\ \/ harness.at = "run_87"
       \/ /\ harness.at = "start_71"
          /\ At("main") = "idle"
          /\ last.op = "start"
    /\ harness' = [harness EXCEPT
                       !.at = IF harness.no_login THEN "done"
                              ELSE "finally_95",
                       !.ran = TRUE, !.how = how]
    /\ UNCHANGED <<srvVars, mgrVars, monVars, conns, instance, last>>

\* lines 93-97: stop_session_monitor has come back and main is over
HarnessDone ==
    /\ harness.at = "finally_95"
    /\ At("main") = "idle"
    /\ last.op = "stop"
    /\ harness' = [harness EXCEPT !.at = "done"]
    /\ UNCHANGED <<srvVars, mgrVars, monVars, conns, instance, last>>

NextHarness ==
    \/ \E no_login \in BOOLEAN, answer \in {"200_success", "302_login"} :
          HarnessEnter(no_login, answer)
    \/ /\ harness.at = "login_58"
       /\ last.op = "none"
       /\ \E answer \in {"200_success", "302_login"} :
             EnsureLoggedIn("main", answer)
    \/ \E network \in Networks : BootstrapFetch("main", network, {LoginPage})
    \/ \E network \in Networks : CaptchaFetch("main", network)
    \/ \E how \in {"typed", "eof", "interrupt"} : CaptchaInput("main", how)
    \/ \E outcome \in {"accepted", "rejected", "post_raises"} :
          FormSubmit("main", outcome)
    \/ \E write \in {"ok", "open_fails"} : SnapshotAndSave("main", write)
    \/ HarnessLoginEnds
    \/ /\ harness.at = "start_71"
       /\ last.op # "start"
       /\ StartCall("main", "cb1")
    \/ \E how \in {"returns", "KeyboardInterrupt", "Exception", "SystemExit"} :
          HarnessRun(how)
    \/ /\ harness.at = "finally_95"
       /\ last.op # "stop"
       /\ StopCall("main")
    \/ CallerStep("main")
    \/ \E t \in ThreadIds : MonitorStep(t)
    \/ TimePasses
    \/ HarnessDone

SpecHarness == InitMonitorWith({"main"}) /\ [][NextHarness]_vars

\* C39, checked under SpecHarness: without --no-login the monitor is
\* started only once ensure_logged_in has returned True, mcp_server.run is
\* not entered when the login failed (main is left first), and main ends
\* after a run, however the run ended, only through stop_session_monitor;
\* with --no-login no monitor is started or stopped and no login is tried.
C39_HarnessOrdersLoginMonitorServer ==
    /\ (\/ monitor.thread # NoThread
        \/ At("main") \in {"start_439", "start_440", "start_441", "start_445"}
        \/ last.op = "start")
          => (~harness.no_login /\ harness.ensured = "True")
    /\ harness.ran => (harness.no_login \/ harness.ensured = "True")
    /\ harness.ensured \in {"False", "raised"} =>
          (harness.at = "exited" /\ ~harness.ran)
    /\ (harness.at = "done" /\ ~harness.no_login) =>
          (harness.ran /\ last.op = "stop" /\ last.caller = "main")
    /\ harness.no_login =>
          /\ monitor.thread = NoThread
          /\ AliveThreads(threads) = {}
          /\ At("main") = "idle"
          /\ last.op = "none"
          /\ harness.ensured = "none"

\* the run ended with an exception that is no Exception, and the monitor
\* that was running has been told to stop
C39_Witness ==
    /\ harness.at = "done"
    /\ ~harness.no_login
    /\ harness.how = "SystemExit"
    /\ last.op = "stop"
    /\ last.signalled

====
